---- MODULE Spec2Model ----
(***************************************************************************)
(* ASH0 codec: the compressor (src/Compressor/main.c) and the decompressor *)
(* (src/Decompressor/main.c; src/Extractor/main.c holds the same decoder). *)
(*                                                                         *)
(* Conventions                                                             *)
(*  - a byte buffer is a sequence of integers 0..255; C index i is i + 1.   *)
(*  - a 32-bit word is a tuple of 32 bits, element 1 being bit 31 (MSB),    *)
(*    so shifts drop bits exactly as the C unsigned shifts do.              *)
(*  - a u32 counter is held as an integer; a value >= 2^31 is held as its   *)
(*    two's complement negative (0xFFFFFFFF is -1), see U32Sub / U32Le.     *)
(*  - a Huffman node is a record; a leaf has no "left"/"right" field (the   *)
(*    NULL children of the C struct), an internal node carries its two      *)
(*    children as nested records.                                           *)
(***************************************************************************)
EXTENDS Integers, Sequences, FiniteSets, TLC

(***************************************************************************)
(* Program constants                                                       *)
(***************************************************************************)
LenSymBase == 256
MinMatch == 3
HeaderSize == 12

(***************************************************************************)
(* Bounds of the enumerated inputs                                         *)
(***************************************************************************)
MaxLen == 3
MaxRep == 6
MaxFreq == 2
MaxDecTokens == 2
MaxDecSize == 4
MaxReadBits == 16
MaxBuf == 5
MaxWidth == 2

Bytes == {65, 66}
Passes == {0, 1, 2}
ParamSets == {<<9, 11>>, <<9, 15>>}
QsortTies == {"stable", "reversed"}

Pow2(n) == 2 ^ n
Min(a, b) == IF a < b THEN a ELSE b
Max(a, b) == IF a > b THEN a ELSE b

(***************************************************************************)
(* 32-bit words                                                            *)
(***************************************************************************)
ZeroWord == [i \in 1..32 |-> 0]

\* bits of n, most significant first, n in 0 .. 2^width - 1, width <= 31
IntToBits(n, width) == [i \in 1..width |-> (n \div Pow2(width - i)) % 2]

RECURSIVE BitsVal(_)
\* value of a bit string read most significant bit first (at most 31 bits)
BitsVal(bits) ==
    IF bits = <<>> THEN 0
    ELSE 2 * BitsVal(SubSeq(bits, 1, Len(bits) - 1)) + bits[Len(bits)]

\* the u32 holding n (n in the two's complement convention above)
WordOf(n) ==
    IF n >= 0 THEN <<0>> \o IntToBits(n, 31)
    ELSE <<1>> \o IntToBits((n + 2147483647) + 1, 31)

\* the integer held by a u32 (two's complement convention)
U32Val(w) ==
    IF w[1] = 0 THEN BitsVal(SubSeq(w, 2, 32))
    ELSE (BitsVal(SubSeq(w, 2, 32)) - 2147483647) - 1

Shl(w, k) == [i \in 1..32 |-> IF i + k <= 32 THEN w[i + k] ELSE 0]
Shr(w, k) == [i \in 1..32 |-> IF i - k >= 1 THEN w[i - k] ELSE 0]
OrW(a, b) == [i \in 1..32 |-> IF a[i] = 1 \/ b[i] = 1 THEN 1 ELSE 0]

\* (word >> shift) & 0xFF
ByteOfWord(w, shift) == BitsVal(SubSeq(w, 25 - shift, 32 - shift))

\* the four bytes of a word as memcpy stores them on the little endian host
StoreWord(w) == << ByteOfWord(w, 0), ByteOfWord(w, 8), ByteOfWord(w, 16), ByteOfWord(w, 24) >>

\* *(u32 *) p on the little endian host, from the four bytes at p
LoadWord(b0, b1, b2, b3) ==
    IntToBits(b3, 8) \o IntToBits(b2, 8) \o IntToBits(b1, 8) \o IntToBits(b0, 8)

LittleToBig(w) == SubSeq(w, 25, 32) \o SubSeq(w, 17, 24) \o SubSeq(w, 9, 16) \o SubSeq(w, 1, 8)
BigToLittle32(w) == SubSeq(w, 25, 32) \o SubSeq(w, 17, 24) \o SubSeq(w, 9, 16) \o SubSeq(w, 1, 8)

\* u32 arithmetic on the two's complement convention
U32Add(v, n) ==
    IF v > 2147483647 - n THEN ((v - 2147483647) + n - 1) - 2147483647 - 1 ELSE v + n
U32Sub(v, n) ==
    IF v < n - 2147483647 - 1 THEN (((v + 2147483647) - n + 1) + 2147483647) + 1 ELSE v - n
\* unsigned a <= b
U32Le(a, b) ==
    IF a >= 0 /\ b >= 0 THEN a <= b
    ELSE IF a < 0 /\ b < 0 THEN a <= b
    ELSE a >= 0

(***************************************************************************)
(* Loops                                                                   *)
(*                                                                         *)
(* ForLoop runs Body(i, st) for i = lo, lo + 1, .. hi in this order on the *)
(* loop state st and returns the final state.  The range is split in two   *)
(* halves only to keep the evaluation stack shallow; Strict makes the      *)
(* state of the first half a value before the second half starts.  A C     *)
(* break or an early loop exit is a "done" field that later iterations     *)
(* leave alone.                                                            *)
(***************************************************************************)
Strict(v) == v = v

RECURSIVE ForLoop(_, _, _, _)
ForLoop(Body(_, _), lo, hi, st) ==
    IF lo > hi THEN st
    ELSE IF lo = hi THEN Body(lo, st)
    ELSE LET mid == (lo + hi) \div 2
             first == ForLoop(Body, lo, mid, st)
         IN  IF Strict(first) THEN ForLoop(Body, mid + 1, hi, first) ELSE st

(***************************************************************************)
(* BITSTREAM (compressor)                                                  *)
(***************************************************************************)
CxiBitStreamCreate == [bits |-> <<>>, nWords |-> 0, nBitsInLastWord |-> 32, length |-> 0]

CxiBitStreamWrite(stream, bit) ==
    LET s1 == IF stream.nBitsInLastWord = 32
              THEN [stream EXCEPT !.nBitsInLastWord = 0,
                                  !.nWords = @ + 1,
                                  !.bits = Append(@, ZeroWord)]
              ELSE stream
    IN  [s1 EXCEPT !.bits[s1.nWords] = OrW(@, Shl(WordOf(bit), 31 - s1.nBitsInLastWord)),
                   !.nBitsInLastWord = @ + 1,
                   !.length = @ + 1]

\* writes the low nBits bits of bits, most significant first
CxiBitStreamWriteBitsBE(stream, bits, nBits) ==
    ForLoop(LAMBDA i, st : CxiBitStreamWrite(st, (bits \div Pow2(nBits - 1 - i)) % 2),
            0, nBits - 1, stream)

ReverseByte(b) == BitsVal([j \in 1..8 |-> IntToBits(b, 8)[9 - j]])

CxiBitStreamGetBytes(stream, wordAlign, beBytes, beBits) ==
    LET full == stream.nWords * 4
        cut  == IF wordAlign THEN 0
                ELSE (IF stream.nBitsInLastWord <= 24 THEN 1 ELSE 0)
                   + (IF stream.nBitsInLastWord <= 16 THEN 1 ELSE 0)
                   + (IF stream.nBitsInLastWord <= 8 THEN 1 ELSE 0)
                   + (IF stream.nBitsInLastWord <= 0 THEN 1 ELSE 0)
        outSize == full - cut
    IN  [k \in 1..outSize |->
            LET i == k - 1
                byteShift == 8 * (IF beBytes THEN 3 - (i % 4) ELSE i % 4)
                byte == ByteOfWord(stream.bits[(i \div 4) + 1], byteShift)
            IN  IF beBits THEN byte ELSE ReverseByte(byte)]

(***************************************************************************)
(* LZ search (compressor)                                                  *)
(***************************************************************************)
\* first branch of CxiCompareMemory: while (nAbsoluteMax > 0), break at the
\* first differing byte; b1 and b2 advance together
CompareLinear(buf, b1, b2, nAbsoluteMax) ==
    ForLoop(LAMBDA k, st :
                IF st.done THEN st
                ELSE IF buf[b1 + st.nSame + 1] # buf[b2 + st.nSame + 1]
                     THEN [st EXCEPT !.done = TRUE]
                     ELSE [st EXCEPT !.nSame = @ + 1],
            1, nAbsoluteMax, [nSame |-> 0, done |-> FALSE]).nSame

\* the inner for loop of the second branch: b1 fixed, b2 advancing
CompareOnce(buf, b1, b2, nMax) ==
    ForLoop(LAMBDA i, st :
                IF st.done THEN st
                ELSE IF buf[b1 + i + 1] = buf[b2 + i + 1]
                     THEN [st EXCEPT !.nSameThis = @ + 1]
                     ELSE [st EXCEPT !.done = TRUE],
            0, nMax - 1, [nSameThis |-> 0, done |-> FALSE]).nSameThis

\* second branch of CxiCompareMemory: compare nMax bytes, repeating
CompareRepeat(buf, b1, b2, nMax, nAbsoluteMax) ==
    ForLoop(LAMBDA k, st :
                IF st.done \/ st.nAbsoluteMax <= 0 THEN st
                ELSE LET nSameThis == CompareOnce(buf, b1, st.b2, nMax)
                     IN  [nAbsoluteMax |-> st.nAbsoluteMax - nSameThis,
                          nSame |-> st.nSame + nSameThis,
                          b2 |-> st.b2 + nSameThis,
                          done |-> nSameThis < nMax],
            1, nAbsoluteMax,
            [nAbsoluteMax |-> nAbsoluteMax, nSame |-> 0, b2 |-> b2, done |-> FALSE]).nSame

\* a comparison that stops after nMax bytes: no match longer than its distance
CompareMemoryOnce(buf, b1, b2, nMax0, nAbsoluteMax) ==
    CompareLinear(buf, b1, b2, IF nMax0 > nAbsoluteMax THEN nAbsoluteMax ELSE nMax0)

\* b1, b2 are C indices into buf
CxiCompareMemory(buf, b1, b2, nMax0, nAbsoluteMax) ==
    LET nMax == IF nMax0 > nAbsoluteMax THEN nAbsoluteMax ELSE nMax0
    IN  IF nAbsoluteMax >= nMax
        THEN CompareLinear(buf, b1, b2, nAbsoluteMax)
        ELSE CompareRepeat(buf, b1, b2, nMax, nAbsoluteMax)

\* memcmp(buf + a, buf + b, n) == 0
MemEq(buf, a, b, n) == \A k \in 0..(n - 1) : buf[a + k + 1] = buf[b + k + 1]

\* a confirmation that compares the first distance bytes only
ConfirmMatchFirstRun(buf, size, pos, distance, length) ==
    MemEq(buf, pos, pos - distance, IF length > distance THEN distance ELSE length)

CxiLzConfirmMatch(buf, size, pos, distance, length) ==
    IF length <= distance THEN MemEq(buf, pos, pos - distance, length)
    ELSE ForLoop(LAMBDA k, st :
                     IF st.done \/ st.nTotalCompare = 0 THEN st
                     ELSE LET nCompare == IF st.nTotalCompare > distance THEN distance
                                          ELSE st.nTotalCompare
                          IN  IF ~MemEq(buf, st.compareSrc, pos - distance, nCompare)
                              THEN [st EXCEPT !.done = TRUE, !.result = FALSE]
                              ELSE [st EXCEPT !.nTotalCompare = @ - nCompare,
                                              !.compareSrc = @ + nCompare],
                 1, length,
                 [nTotalCompare |-> length, compareSrc |-> pos,
                  result |-> TRUE, done |-> FALSE]).result

\* returns <<length, distance>>
CxiSearchLZ(buf, size, curpos, minDistance, maxDistance0, maxLength) ==
    LET nBytesLeft == size - curpos
        maxDistance == IF maxDistance0 > curpos THEN curpos ELSE maxDistance0
        nMaxCompare == IF maxLength > nBytesLeft THEN nBytesLeft ELSE maxLength
        run == ForLoop(LAMBDA j, st :
                   IF st.done THEN st
                   ELSE LET nCompare == Min(Min(maxLength, j), nMaxCompare)
                            nMatched == CxiCompareMemory(buf, curpos - j, curpos,
                                                         nCompare, nMaxCompare)
                        IN  IF nMatched > st.biggestRun
                            THEN [biggestRun |-> nMatched, biggestRunIndex |-> j,
                                  done |-> nMatched = nMaxCompare]
                            ELSE st,
                   minDistance, maxDistance,
                   [biggestRun |-> 0, biggestRunIndex |-> 0, done |-> FALSE])
    IN  << run.biggestRun, run.biggestRunIndex >>

\* returns <<length, distance>>; distances is the ascending list of allowed distances
CxiSearchLZRestricted(buf, size, curpos, distances, maxLength) ==
    IF Len(distances) = 0 THEN << 0, 0 >>
    ELSE LET nBytesLeft == size - curpos
             last == distances[Len(distances)]
             maxDistance == IF last > curpos THEN curpos ELSE last
             nMaxCompare == IF maxLength > nBytesLeft THEN nBytesLeft ELSE maxLength
             run == ForLoop(LAMBDA i, st :
                        IF st.done THEN st
                        ELSE LET j == distances[i + 1]
                             IN  IF j > maxDistance THEN [st EXCEPT !.done = TRUE]
                                 ELSE LET nCompare == Min(Min(maxLength, j), nMaxCompare)
                                          nMatched == CxiCompareMemory(buf, curpos - j, curpos,
                                                                       nCompare, nMaxCompare)
                                      IN  IF nMatched > st.biggestRun
                                          THEN [biggestRun |-> nMatched, biggestRunIndex |-> j,
                                                done |-> nMatched = nMaxCompare]
                                          ELSE st,
                        0, Len(distances) - 1,
                        [biggestRun |-> 0, biggestRunIndex |-> 0, done |-> FALSE])
         IN  << run.biggestRun, run.biggestRunIndex >>

(***************************************************************************)
(* Tokens and the greedy tokenizer                                         *)
(***************************************************************************)
Literal(b) == [isReference |-> FALSE, symbol |-> b, length |-> 0, distance |-> 0]
Reference(l, d) == [isReference |-> TRUE, symbol |-> 0, length |-> l, distance |-> d]

\* a tokenizer step that takes a reference only from length 4 on
TokenizeStepFrom4(buf, nSymBits, nDstBits, st) ==
    LET found == CxiSearchLZ(buf, Len(buf), st.curpos, 1, Pow2(nDstBits),
                             Pow2(nSymBits) - 1 - LenSymBase + MinMatch)
    IN  IF found[1] > MinMatch
        THEN [curpos |-> st.curpos + found[1],
              tokenBuffer |-> Append(st.tokenBuffer, Reference(found[1], found[2]))]
        ELSE [curpos |-> st.curpos + 1,
              tokenBuffer |-> Append(st.tokenBuffer, Literal(buf[st.curpos + 1]))]

\* one iteration of while (curpos < size)
TokenizeStep(buf, nSymBits, nDstBits, st) ==
    LET found == CxiSearchLZ(buf, Len(buf), st.curpos, 1, Pow2(nDstBits),
                             Pow2(nSymBits) - 1 - LenSymBase + MinMatch)
    IN  IF found[1] >= MinMatch
        THEN [curpos |-> st.curpos + found[1],
              tokenBuffer |-> Append(st.tokenBuffer, Reference(found[1], found[2]))]
        ELSE [curpos |-> st.curpos + 1,
              tokenBuffer |-> Append(st.tokenBuffer, Literal(buf[st.curpos + 1]))]

\* the loop runs at most size times, curpos growing by at least 1 each time
CxiAshTokenize(buf, nSymBits, nDstBits) ==
    ForLoop(LAMBDA k, st :
                IF st.curpos < Len(buf) THEN TokenizeStep(buf, nSymBits, nDstBits, st) ELSE st,
            1, Len(buf), [curpos |-> 0, tokenBuffer |-> << >>]).tokenBuffer

(***************************************************************************)
(* Huffman trees (compressor)                                              *)
(*                                                                         *)
(* The node array before construction is held as its histogram: a function *)
(* from the symbols whose freq field was touched to that freq; every other *)
(* node of the array has freq 0.                                           *)
(***************************************************************************)
ISLEAF(n) == "left" \notin DOMAIN n

\* node i of the array after CxiHuffmanInit, with its freq field
Leaf(i, f) == [sym |-> i, symMin |-> i, symMax |-> i, nRepresent |-> 1, freq |-> f]

\* all freq fields zero
CxiHuffmanInit == << >>

FreqOf(h, s) == IF s \in DOMAIN h THEN h[s] ELSE 0
\* nodes[s].freq++
FreqInc(h, s) == IF s \in DOMAIN h THEN [h EXCEPT ![s] = @ + 1] ELSE (s :> 1) @@ h
FreqSet(h, s, f) == IF s \in DOMAIN h THEN [h EXCEPT ![s] = f] ELSE (s :> f) @@ h

RECURSIVE SetToSeq(_)
\* the elements of a finite set of integers in ascending order
SetToSeq(S) ==
    IF S = {} THEN << >>
    ELSE LET m == CHOOSE x \in S : \A y \in S : x <= y
         IN  << m >> \o SetToSeq(S \ {m})

\* qsort places x among the already placed elements s; the C library leaves
\* the order of elements that compare equal unspecified: "stable" keeps the
\* array order among them, "reversed" reverses it
InsertByFreq(s, x, ties) ==
    LET k == Cardinality({i \in 1..Len(s) :
                             \/ s[i].freq > x.freq
                             \/ (ties = "stable" /\ s[i].freq = x.freq)})
    IN  SubSeq(s, 1, k) \o << x >> \o SubSeq(s, k + 1, Len(s))

\* qsort(nodes, n, sizeof(CxiHuffNode), CxiHuffmanNodeComparator): descending freq
QsortNodes(arr, ties) ==
    ForLoop(LAMBDA i, acc : InsertByFreq(acc, arr[i], ties), 1, Len(arr), << >>)

\* the first qsort of CxiHuffmanConstructTree and the cut at the first freq 0
HuffSortCut(h, ties) ==
    LET present == SetToSeq({s \in DOMAIN h : h[s] # 0})
    IN  QsortNodes([k \in 1..Len(present) |-> Leaf(present[k], h[present[k]])], ties)

\* the branch node written over srcA in one iteration of the merge loop
HuffBranch(left, right) ==
    [sym |-> 0,
     symMin |-> Min(left.symMin, right.symMin),
     symMax |-> Max(right.symMax, left.symMax),
     nRepresent |-> (left.nRepresent + right.nRepresent) % 65536,
     freq |-> left.freq + right.freq,
     left |-> left,
     right |-> right]

\* an iteration that merges the top two roots, nodes[0] and nodes[1]
HuffMergeTopTwo(roots, ties) ==
    QsortNodes(<< HuffBranch(roots[1], roots[2]) >> \o SubSeq(roots, 3, Len(roots)), ties)

\* one iteration of the merge loop on the roots nodes[0 .. nRoots-1]
HuffMergeStep(roots, ties) ==
    LET nRoots == Len(roots)
        left == roots[nRoots - 1]
        right == roots[nRoots]
    IN  QsortNodes(SubSeq(roots, 1, nRoots - 2) \o << HuffBranch(left, right) >>, ties)

\* while (nRoots > 1): one root fewer each time
HuffMergeLoop(roots, ties) ==
    ForLoop(LAMBDA k, st : IF Len(st) > 1 THEN HuffMergeStep(st, ties) ELSE st,
            1, Len(roots) - 1, roots)

\* the tree as the merge loop left it
KeepMergeOrder(node) == node

RECURSIVE CxiHuffmanMakeShallowFirst(_)
CxiHuffmanMakeShallowFirst(node) ==
    IF ISLEAF(node) THEN node
    ELSE LET swap == node.left.nRepresent > node.right.nRepresent
             l == IF swap THEN node.right ELSE node.left
             r == IF swap THEN node.left ELSE node.right
         IN  [node EXCEPT !.left = CxiHuffmanMakeShallowFirst(l),
                          !.right = CxiHuffmanMakeShallowFirst(r)]

\* nodes[0] when every freq is 0: the sort of an all-equal array
AllZeroRoot(nNodes, ties) == Leaf(IF ties = "stable" THEN 0 ELSE nNodes - 1, 0)

\* the tree rooted at nodes[0] after CxiHuffmanConstructTree
CxiHuffmanConstructTree(h, nNodes, ties) ==
    LET roots == HuffMergeLoop(HuffSortCut(h, ties), ties)
    IN  IF roots = << >> THEN AllZeroRoot(nNodes, ties)
        ELSE CxiHuffmanMakeShallowFirst(roots[1])

RECURSIVE CxiHuffmanHasSymbol(_, _)
CxiHuffmanHasSymbol(node, sym) ==
    IF ISLEAF(node) THEN node.sym = sym
    ELSE IF sym < node.symMin \/ sym > node.symMax THEN FALSE
    ELSE CxiHuffmanHasSymbol(node.left, sym) \/ CxiHuffmanHasSymbol(node.right, sym)

RECURSIVE WriteSymbolLeftOne(_, _, _)
\* the code of sym with the bits the other way round: 1 for left, 0 for right
WriteSymbolLeftOne(bits, sym, tree) ==
    IF ISLEAF(tree) THEN bits
    ELSE LET goLeft == CxiHuffmanHasSymbol(tree.left, sym)
             written == CxiBitStreamWrite(bits, IF goLeft THEN 1 ELSE 0)
         IN  IF Strict(written)
             THEN WriteSymbolLeftOne(written, sym, IF goLeft THEN tree.left ELSE tree.right)
             ELSE bits

RECURSIVE CxiHuffmanWriteSymbol(_, _, _)
CxiHuffmanWriteSymbol(bits, sym, tree) ==
    IF ISLEAF(tree) THEN bits
    ELSE LET goLeft == CxiHuffmanHasSymbol(tree.left, sym)
             written == CxiBitStreamWrite(bits, IF goLeft THEN 0 ELSE 1)
         IN  IF Strict(written)
             THEN CxiHuffmanWriteSymbol(written, sym, IF goLeft THEN tree.left ELSE tree.right)
             ELSE bits

RECURSIVE CxiHuffmanGetNodeDepth(_, _)
CxiHuffmanGetNodeDepth(tree, sym) ==
    IF ISLEAF(tree) THEN 0
    ELSE IF CxiHuffmanHasSymbol(tree.left, sym)
         THEN CxiHuffmanGetNodeDepth(tree.left, sym) + 1
    ELSE IF CxiHuffmanHasSymbol(tree.right, sym)
         THEN CxiHuffmanGetNodeDepth(tree.right, sym) + 1
    ELSE 0

RECURSIVE CxiHuffmanEnumerateSymbolInfoInternal(_, _, _)
\* the entries appended to buf, in the order of the recursion
CxiHuffmanEnumerateSymbolInfoInternal(tree, depth, nMin) ==
    IF ISLEAF(tree)
    THEN IF tree.sym >= nMin THEN << [sym |-> tree.sym, depth |-> depth] >> ELSE << >>
    ELSE CxiHuffmanEnumerateSymbolInfoInternal(tree.left, depth + 1, nMin)
         \o CxiHuffmanEnumerateSymbolInfoInternal(tree.right, depth + 1, nMin)

InsertBySym(s, x, ties) ==
    LET k == Cardinality({i \in 1..Len(s) :
                             \/ s[i].sym < x.sym
                             \/ (ties = "stable" /\ s[i].sym = x.sym)})
    IN  SubSeq(s, 1, k) \o << x >> \o SubSeq(s, k + 1, Len(s))

\* the sorted array of <sym, depth> of the leaves with sym >= nMin
CxiHuffmanEnumerateSymbolInfo(tree, nMin, ties) ==
    LET buf == CxiHuffmanEnumerateSymbolInfoInternal(tree, 0, nMin)
    IN  ForLoop(LAMBDA i, acc : InsertBySym(acc, buf[i], ties), 1, Len(buf), << >>)

(***************************************************************************)
(* ASH code (compressor)                                                   *)
(***************************************************************************)
RECURSIVE EnsureLoop(_, _, _, _, _)
\* the second for loop of CxiAshEnsureTreeElements, from node i on
EnsureLoop(h, i, nPresent, nNodes, nMinNodes) ==
    IF i >= nNodes THEN h
    ELSE IF FreqOf(h, i) = 0
         THEN IF nPresent + 1 >= nMinNodes THEN FreqSet(h, i, 1)
              ELSE EnsureLoop(FreqSet(h, i, 1), i + 1, nPresent + 1, nNodes, nMinNodes)
         ELSE EnsureLoop(h, i + 1, nPresent, nNodes, nMinNodes)

\* the histogram left as it is
EnsureNothing(h, nNodes, nMinNodes) == h

CxiAshEnsureTreeElements(h, nNodes, nMinNodes) ==
    LET nPresent == Cardinality({s \in DOMAIN h : s < nNodes /\ h[s] # 0})
    IN  IF nPresent >= nMinNodes THEN h
        ELSE EnsureLoop(h, 0, nPresent, nNodes, nMinNodes)

RECURSIVE CxiAshWriteTree(_, _, _)
CxiAshWriteTree(stream, node, nBits) ==
    IF ~ISLEAF(node)
    THEN LET afterLeft == CxiAshWriteTree(CxiBitStreamWrite(stream, 1), node.left, nBits)
         IN  IF Strict(afterLeft) THEN CxiAshWriteTree(afterLeft, node.right, nBits)
             ELSE stream
    ELSE LET flagged == CxiBitStreamWrite(stream, 0)
         IN  IF Strict(flagged) THEN CxiBitStreamWriteBitsBE(flagged, node.sym, nBits)
             ELSE stream

\* a frequency loop that counts the length symbols only
SymHistogramLengthsOnly(tokens) ==
    ForLoop(LAMBDA i, h :
                IF tokens[i].isReference
                THEN FreqInc(h, tokens[i].length - MinMatch + LenSymBase)
                ELSE h,
            1, Len(tokens), CxiHuffmanInit)

\* the freq fields of symNodes after the frequency loop of CxiAshGenHuffman
SymHistogram(tokens) ==
    ForLoop(LAMBDA i, h :
                IF tokens[i].isReference
                THEN FreqInc(h, tokens[i].length - MinMatch + LenSymBase)
                ELSE FreqInc(h, tokens[i].symbol),
            1, Len(tokens), CxiHuffmanInit)

\* the freq fields of dstNodes after the frequency loop of CxiAshGenHuffman
DstHistogram(tokens) ==
    ForLoop(LAMBDA i, h :
                IF tokens[i].isReference THEN FreqInc(h, tokens[i].distance - 1) ELSE h,
            1, Len(tokens), CxiHuffmanInit)

\* the two trees left in symNodes and dstNodes
CxiAshGenHuffman(tokens, nSymNodes, nDstNodes, ties) ==
    LET symH == CxiAshEnsureTreeElements(SymHistogram(tokens), nSymNodes, 2)
        dstH == CxiAshEnsureTreeElements(DstHistogram(tokens), nDstNodes, 2)
    IN  [sym |-> CxiHuffmanConstructTree(symH, nSymNodes, ties),
         dst |-> CxiHuffmanConstructTree(dstH, nDstNodes, ties)]

(***************************************************************************)
(* Retokenizer (compressor)                                                *)
(***************************************************************************)
\* UINT_MAX in the two's complement convention
UINT_MAX == 0 - 1

RECURSIVE RoundDownLoop(_, _, _, _, _)
RoundDownLoop(sym, vals, i, lo, loIndex) ==
    IF i >= Len(vals) THEN << (IF lo = 0 THEN 1 ELSE lo), loIndex >>
    ELSE IF vals[i + 1] = sym THEN << sym, i >>
    ELSE IF vals[i + 1] < sym THEN RoundDownLoop(sym, vals, i + 1, vals[i + 1], i)
    ELSE << (IF lo = 0 THEN 1 ELSE lo), loIndex >>

\* returns <<rounded value, *pIndex>>, the index being the C index into vals
CxiAshRoundDown(sym, vals) ==
    IF sym = 0 THEN << 0, 0 - 1 >> ELSE RoundDownLoop(sym, vals, 0, 0, 0 - 1)

\* the weight read from the graph node at C index p
NodeWeight(nodes, p) == nodes[p + 1].weight

RECURSIVE RetokScanLength(_, _, _, _, _, _, _, _, _, _)
\* a comparison that lets a later, shorter length win a tie
RetokScanCompareLast(buf, pos, nodes, symNodes, lens, lenInfo, length, weightBest, lengthBest, thisWeight, rd) ==
    RetokScanLength(buf, pos, nodes, symNodes, lens, lenInfo, rd[1], rd[2],
                    IF U32Le(thisWeight, weightBest) THEN thisWeight ELSE weightBest,
                    IF U32Le(thisWeight, weightBest) THEN length ELSE lengthBest)

\* end of one iteration of the while (length) loop: keep the better weight,
\* go on with the next lower length rd
RetokScanCompare(buf, pos, nodes, symNodes, lens, lenInfo, length, weightBest, lengthBest, thisWeight, rd) ==
    RetokScanLength(buf, pos, nodes, symNodes, lens, lenInfo, rd[1], rd[2],
                    IF ~U32Le(weightBest, thisWeight) THEN thisWeight ELSE weightBest,
                    IF ~U32Le(weightBest, thisWeight) THEN length ELSE lengthBest)

\* thisWeight from thisLengthWeight
RetokScanWeigh(buf, pos, nodes, symNodes, lens, lenInfo, length, weightBest, lengthBest, thisLengthWeight) ==
    RetokScanCompare(buf, pos, nodes, symNodes, lens, lenInfo, length, weightBest,
                     lengthBest,
                     IF pos + length = Len(buf) THEN thisLengthWeight
                     ELSE thisLengthWeight + NodeWeight(nodes, pos + length),
                     CxiAshRoundDown(length - 1, lens))

\* the while (length) loop: returns <<weightBest, lengthBest>>
RetokScanLength(buf, pos, nodes, symNodes, lens, lenInfo, length, lengthIndex, weightBest, lengthBest) ==
    IF length = 0 THEN << weightBest, lengthBest >>
    ELSE RetokScanWeigh(buf, pos, nodes, symNodes, lens, lenInfo, length, weightBest,
                        lengthBest,
                        IF length > 1 THEN lenInfo[lengthIndex + 1].depth
                        ELSE CxiHuffmanGetNodeDepth(symNodes, buf[pos + 1]))

RECURSIVE RetokPickDistance(_, _, _, _, _, _, _, _)
\* the for loop re-selecting the distance: returns <<dstCost, distance>>
RetokPickDistance(buf, pos, dsts, dstInfo, i, length, dstCost, distance) ==
    IF i >= Len(dsts) THEN << dstCost, distance >>
    ELSE IF dsts[i + 1] > pos THEN << dstCost, distance >>
    ELSE IF dstInfo[i + 1].depth < dstCost
            /\ CxiLzConfirmMatch(buf, Len(buf), pos, dsts[i + 1], length)
    THEN RetokPickDistance(buf, pos, dsts, dstInfo, i + 1, length,
                           dstInfo[i + 1].depth, dsts[i + 1])
    ELSE RetokPickDistance(buf, pos, dsts, dstInfo, i + 1, length, dstCost, distance)

\* the node of a literal: its code length plus the weight of the next node
RetokLiteral(buf, pos, nodes, symNodes) ==
    [token |-> Literal(buf[pos + 1]),
     weight |-> CxiHuffmanGetNodeDepth(symNodes, buf[pos + 1])
                + (IF pos + 1 < Len(buf) THEN NodeWeight(nodes, pos + 1) ELSE 0)]

\* the node of a reference whose weight leaves out the cost of the distance
RetokPickedNoDistance(best, pick) ==
    [token |-> Reference(best[2], pick[2]), weight |-> best[1]]

\* the node of a reference of length best[2] and weight best[1]: pick is
\* <<dstCost, distance>>
RetokPicked(best, pick) ==
    [token |-> Reference(best[2], pick[2]), weight |-> best[1] + pick[1]]

\* after the while (length) loop: best is <<weightBest, lengthBest>>
RetokBest(buf, pos, dsts, dstInfo, best, dstCost, distance) ==
    IF best[2] < MinMatch
    THEN [token |-> Literal(buf[pos + 1]), weight |-> best[1] + 0]
    ELSE RetokPicked(best, RetokPickDistance(buf, pos, dsts, dstInfo, 0, best[2],
                                             dstCost, distance))

\* after the search and CxiAshRoundDown: found is <<length, distance>>, rd is
\* <<length, lengthIndex>>
RetokRounded(buf, pos, nodes, symNodes, dstNodes, lens, dsts, lenInfo, dstInfo, found, rd) ==
    IF rd[1] < MinMatch THEN RetokLiteral(buf, pos, nodes, symNodes)
    ELSE RetokBest(buf, pos, dsts, dstInfo,
                   RetokScanLength(buf, pos, nodes, symNodes, lens, lenInfo,
                                   rd[1], rd[2], UINT_MAX, rd[1]),
                   CxiHuffmanGetNodeDepth(dstNodes, found[2] - 1), found[2])

\* after the search: found is <<length, distance>>
RetokFound(buf, pos, nodes, symNodes, dstNodes, lens, dsts, lenInfo, dstInfo, found) ==
    RetokRounded(buf, pos, nodes, symNodes, dstNodes, lens, dsts, lenInfo, dstInfo,
                 found,
                 IF found[1] >= MinMatch THEN CxiAshRoundDown(found[1], lens)
                 ELSE << 1, 0 - 1 >>)

\* the graph node written at pos by one iteration of the backward scan
RetokNode(buf, pos, nodes, symNodes, dstNodes, lens, dsts, lenInfo, dstInfo) ==
    RetokFound(buf, pos, nodes, symNodes, dstNodes, lens, dsts, lenInfo, dstInfo,
               IF Len(lens) > 0
               THEN CxiSearchLZRestricted(buf, Len(buf), pos, dsts, lens[Len(lens)])
               ELSE << 0, 0 >>)

\* the backward scan while (pos-- > 0): iteration k handles pos = size - k
RetokScan(buf, nodes, symNodes, dstNodes, lens, dsts, lenInfo, dstInfo) ==
    ForLoop(LAMBDA k, st :
                LET pos == Len(buf) - k
                IN  [st EXCEPT ![pos + 1] = RetokNode(buf, pos, st, symNodes, dstNodes,
                                                      lens, dsts, lenInfo, dstInfo)],
            1, Len(buf), nodes)

\* the graph filled by the backward scan of CxiAshRetokenize
RetokGraph(buf, symNodes, dstNodes, ties) ==
    LET lenInfo == CxiHuffmanEnumerateSymbolInfo(symNodes, LenSymBase, ties)
        dstInfo == CxiHuffmanEnumerateSymbolInfo(dstNodes, 0, ties)
        lens == [i \in 1..Len(lenInfo) |-> lenInfo[i].sym - LenSymBase + MinMatch]
        dsts == [i \in 1..Len(dstInfo) |-> dstInfo[i].sym + 1]
        zero == [token |-> [isReference |-> FALSE, symbol |-> 0, length |-> 0, distance |-> 0],
                 weight |-> 0]
    IN  RetokScan(buf, [p \in 1..Len(buf) |-> zero],
                  symNodes, dstNodes, lens, dsts, lenInfo, dstInfo)

\* a walk that steps one byte after every node, references included
RetokWalkByOne(nodes) == [p \in 1..Len(nodes) |-> nodes[p].token]

\* the forward walk converting the graph into the token array; the walk
\* runs at most size times, pos growing by at least 1 each time
RetokWalk(nodes) ==
    ForLoop(LAMBDA k, st :
                IF st.pos < Len(nodes)
                THEN LET node == nodes[st.pos + 1]
                     IN  [pos |-> IF node.token.isReference THEN st.pos + node.token.length
                                  ELSE st.pos + 1,
                          tokens |-> Append(st.tokens, node.token)]
                ELSE st,
            1, Len(nodes), [pos |-> 0, tokens |-> << >>]).tokens

CxiAshRetokenize(buf, symNodes, dstNodes, ties) ==
    RetokWalk(RetokGraph(buf, symNodes, dstNodes, ties))

(***************************************************************************)
(* CxCompressAsh: emission of the two streams and of the file              *)
(***************************************************************************)
\* the data stream loop: returns [sym |-> symStream, dst |-> dstStream]
EmitTokens(tokens, symNodes, dstNodes, streams) ==
    ForLoop(LAMBDA i, st :
                LET token == tokens[i]
                IN  IF token.isReference
                    THEN [sym |-> CxiHuffmanWriteSymbol(st.sym,
                                      token.length - MinMatch + LenSymBase, symNodes),
                          dst |-> CxiHuffmanWriteSymbol(st.dst, token.distance - 1, dstNodes)]
                    ELSE [sym |-> CxiHuffmanWriteSymbol(st.sym, token.symbol, symNodes),
                          dst |-> st.dst],
            1, Len(tokens), streams)

\* the 'ASH0' header word
AshMagic == 810046273

\* a header whose third word leaves out the size of the header
AshHeaderNoBase(size, symStreamSize) ==
    StoreWord(WordOf(AshMagic))
    \o StoreWord(LittleToBig(WordOf(size)))
    \o StoreWord(LittleToBig(WordOf(symStreamSize)))

\* the three header words as memcpy lays them out
AshHeader(size, symStreamSize) ==
    StoreWord(WordOf(AshMagic))
    \o StoreWord(LittleToBig(WordOf(size)))
    \o StoreWord(LittleToBig(WordOf(HeaderSize + symStreamSize)))

\* from "init streams" to the end of CxCompressAsh
CxCompressAshEmit(tokens, symNodes, dstNodes, size, nSymBits, nDstBits) ==
    LET trees == [sym |-> CxiAshWriteTree(CxiBitStreamCreate, symNodes, nSymBits),
                  dst |-> CxiAshWriteTree(CxiBitStreamCreate, dstNodes, nDstBits)]
        streams == EmitTokens(tokens, symNodes, dstNodes, trees)
        symBytes == CxiBitStreamGetBytes(streams.sym, TRUE, TRUE, TRUE)
        dstBytes == CxiBitStreamGetBytes(streams.dst, TRUE, TRUE, TRUE)
    IN  [out |-> AshHeader(size, Len(symBytes)) \o symBytes \o dstBytes,
         symStreamSize |-> Len(symBytes),
         dstStreamSize |-> Len(dstBytes),
         symBitLength |-> streams.sym.length,
         dstBitLength |-> streams.dst.length]

(***************************************************************************)
(* CxBitReader (decompressor)                                              *)
(*                                                                         *)
(* A reader is [srcpos, word, bitCapacity] plus two observations: ok is    *)
(* FALSE once CX_ASSERT of CxBitReaderFeedWord has failed (the process     *)
(* exits there, later operations on the reader do nothing), oob is TRUE    *)
(* once a word was loaded from outside the source buffer.  A byte outside  *)
(* the buffer reads as junk, whatever lies there in memory.                *)
(***************************************************************************)
JunkBytes == {0, 255}

\* srcp[i] for the unsigned index i
Mem(src, junk, i) == IF i >= 0 /\ i < Len(src) THEN src[i + 1] ELSE junk

\* BigToLittle32(*(const u32 *) (src + p))
LoadBE(src, junk, p) ==
    BigToLittle32(LoadWord(Mem(src, junk, p), Mem(src, junk, p + 1),
                           Mem(src, junk, p + 2), Mem(src, junk, p + 3)))

CxBitReaderFeedWord(reader, src, size, junk) ==
    IF ~reader.ok THEN reader
    ELSE IF ~U32Le(U32Add(reader.srcpos, 4), size) THEN [reader EXCEPT !.ok = FALSE]
    ELSE [srcpos |-> U32Add(reader.srcpos, 4),
          word |-> LoadBE(src, junk, reader.srcpos),
          bitCapacity |-> 0,
          ok |-> TRUE,
          oob |-> reader.oob \/ reader.srcpos < 0 \/ reader.srcpos + 4 > Len(src)]

CxBitReaderInit(src, size, startpos, junk) ==
    CxBitReaderFeedWord([srcpos |-> startpos, word |-> ZeroWord, bitCapacity |-> 0,
                         ok |-> TRUE, oob |-> FALSE], src, size, junk)

\* returns [bit, reader]
CxBitReaderReadBit(reader, src, size, junk) ==
    [bit |-> reader.word[1],
     reader |-> IF reader.bitCapacity = 31
                THEN CxBitReaderFeedWord(reader, src, size, junk)
                ELSE [reader EXCEPT !.bitCapacity = @ + 1, !.word = Shl(@, 1)]]

\* the spanning branch without the bits left in the current word
ReadBitsAcrossLowOnly(reader, fed, nBits, next) ==
    [bits |-> U32Val(Shr(fed.word, 64 - next)),
     reader |-> IF fed.ok
                THEN [fed EXCEPT !.word = Shl(@, next - 32), !.bitCapacity = next - 32]
                ELSE fed]

\* the branch of CxBitReaderReadBits whose bits span two words: fed is the
\* reader after the refill
ReadBitsAcross(reader, fed, nBits, next) ==
    [bits |-> U32Val(OrW(Shr(reader.word, 32 - nBits), Shr(fed.word, 64 - next))),
     reader |-> IF fed.ok
                THEN [fed EXCEPT !.word = Shl(@, next - 32), !.bitCapacity = next - 32]
                ELSE fed]

\* returns [bits, reader]
CxBitReaderReadBits(reader, src, size, junk, nBits) ==
    IF reader.bitCapacity + nBits < 32
    THEN [bits |-> U32Val(Shr(reader.word, 32 - nBits)),
          reader |-> [reader EXCEPT !.word = Shl(@, nBits), !.bitCapacity = @ + nBits]]
    ELSE IF reader.bitCapacity + nBits = 32
    THEN [bits |-> U32Val(Shr(reader.word, 32 - nBits)),
          reader |-> CxBitReaderFeedWord(reader, src, size, junk)]
    ELSE ReadBitsAcross(reader, CxBitReaderFeedWord(reader, src, size, junk),
                        nBits, reader.bitCapacity + nBits)

(***************************************************************************)
(* CxAshReadTree (decompressor)                                            *)
(*                                                                         *)
(* leftTree and rightTree are calloc'ed arrays, held as functions from the *)
(* indices written so far; an unwritten entry reads 0.  A scratch entry    *)
(* r23 | TREE_RIGHT or r23 | TREE_LEFT is [idx |-> r23, tag |-> ..].        *)
(***************************************************************************)
ArrayGet(a, i) == IF i \in DOMAIN a THEN a[i] ELSE 0
ArrayPut(a, i, v) == IF i \in DOMAIN a THEN [a EXCEPT ![i] = v] ELSE (i :> v) @@ a

\* the locals of CxAshReadTree on entry
ReadTreeEntry(width) ==
    [work |-> << >>, r23 |-> Pow2(width), nNodes |-> 0, symRoot |-> 0,
     leftTree |-> << >>, rightTree |-> << >>, undefined |-> FALSE]

RECURSIVE ReadTreeUnwind(_)
\* the inner do .. while (nNodes > 0) with its break; popping the empty
\* scratch stack reads before the allocation: undefined
ReadTreeUnwind(rt) ==
    IF rt.work = << >> THEN [rt EXCEPT !.undefined = TRUE]
    ELSE LET nodeval == rt.work[Len(rt.work)]
             popped == [rt EXCEPT !.work = SubSeq(@, 1, Len(@) - 1),
                                  !.nNodes = U32Sub(@, 1)]
         IN  IF nodeval.tag = "RIGHT"
             THEN LET set == [popped EXCEPT
                                 !.rightTree = ArrayPut(@, nodeval.idx, rt.symRoot),
                                 !.symRoot = nodeval.idx]
                  IN  IF set.nNodes # 0 THEN ReadTreeUnwind(set) ELSE set
             ELSE [popped EXCEPT !.leftTree = ArrayPut(@, nodeval.idx, rt.symRoot)]

\* the else branch of the outer loop: leaf is the result of CxBitReaderReadBits
ReadTreeLeaf(leaf, rt) ==
    IF ~leaf.reader.ok THEN [reader |-> leaf.reader, rt |-> rt]
    ELSE [reader |-> leaf.reader,
          rt |-> ReadTreeUnwind([rt EXCEPT !.symRoot = leaf.bits])]

\* a loop body that steps r23 by 2 at every internal node
ReadTreeNodeSkipIndex(flag, src, size, junk, width, rt) ==
    IF ~flag.reader.ok THEN [reader |-> flag.reader, rt |-> rt]
    ELSE IF flag.bit = 1
    THEN [reader |-> flag.reader,
          rt |-> [rt EXCEPT !.work = @ \o << [idx |-> rt.r23, tag |-> "RIGHT"],
                                            [idx |-> rt.r23, tag |-> "LEFT"] >>,
                            !.nNodes = U32Add(@, 2),
                            !.r23 = @ + 2]]
    ELSE ReadTreeLeaf(CxBitReaderReadBits(flag.reader, src, size, junk, width), rt)

\* the body of the outer loop: flag is the result of CxBitReaderReadBit
ReadTreeNode(flag, src, size, junk, width, rt) ==
    IF ~flag.reader.ok THEN [reader |-> flag.reader, rt |-> rt]
    ELSE IF flag.bit = 1
    THEN [reader |-> flag.reader,
          rt |-> [rt EXCEPT !.work = @ \o << [idx |-> rt.r23, tag |-> "RIGHT"],
                                            [idx |-> rt.r23, tag |-> "LEFT"] >>,
                            !.nNodes = U32Add(@, 2),
                            !.r23 = @ + 1]]
    ELSE ReadTreeLeaf(CxBitReaderReadBits(flag.reader, src, size, junk, width), rt)

\* one iteration of the outer do .. while (nNodes > 0): returns [reader, rt]
CxAshReadTreeIter(reader, src, size, junk, width, rt) ==
    ReadTreeNode(CxBitReaderReadBit(reader, src, size, junk), src, size, junk, width, rt)

RECURSIVE TreeWalk(_, _, _, _, _, _, _, _)
\* the body of the walk: b is the result of CxBitReaderReadBit
TreeWalkBit(b, sym, max, leftTree, rightTree, src, size, junk) ==
    TreeWalk(IF b.bit = 0 THEN ArrayGet(leftTree, sym) ELSE ArrayGet(rightTree, sym),
             max, leftTree, rightTree, b.reader, src, size, junk)

\* while (sym >= max) sym = bit ? rightTree[sym] : leftTree[sym]; returns [sym, reader]
TreeWalk(sym, max, leftTree, rightTree, reader, src, size, junk) ==
    IF sym < max \/ ~reader.ok THEN [sym |-> sym, reader |-> reader]
    ELSE TreeWalkBit(CxBitReaderReadBit(reader, src, size, junk),
                     sym, max, leftTree, rightTree, src, size, junk)

\* while (copylen--) *(destp++) = *(srcp++), srcp = destp - distsym - 1
CopyBytes(dest, distsym, copylen) ==
    ForLoop(LAMBDA k, d : Append(d, d[Len(d) - distsym]), 1, copylen, dest)

(***************************************************************************)
(* The programs as a state machine.                                        *)
(*                                                                         *)
(* pc walks CxCompressAsh (tokenize, genhuffman, passloop), then the file  *)
(* handed to the decompressor (compressed) and CxUncompressAsh (decode,    *)
(* readsymtree, readdisttree, mainloop) up to returned, aborted (a         *)
(* CX_ASSERT failed, exit(1)), failed (the compressor returned NULL),      *)
(* crashed (the process was killed after an access outside an allocation)  *)
(* or undefined (behaviour the code leaves undefined and the model does    *)
(* not follow further).  For the construction of one Huffman tree pc walks *)
(* ensure, sort, merge, built.                                             *)
(*                                                                         *)
(* Spec is the compressor followed by the decompressor on its output or on *)
(* a prefix of it; SpecDec is the decompressor on files made of a header   *)
(* size and a token list that need not agree; SpecHuff is the construction *)
(* of one tree from a histogram.                                           *)
(***************************************************************************)
VARIABLES
    pc,
    \* compressor: arguments of CxCompressAsh and the qsort tie order
    buffer, nSymBits, nDstBits, nPasses, qsortTies,
    \* compressor: locals of CxCompressAsh
    pass, tokens, symNodes, dstNodes, out, symStreamSize,
    \* compressor: the graph nodes[0 .. size-1] of the last CxiAshRetokenize
    lzNodes,
    \* decompressor: the file read and the locals of CxUncompressAsh
    inbuf, uncompSize, outSize, outbuf, reader, reader2, symTree, distTree,
    \* observations: the source line of the failed CX_ASSERT, whether an access
    \* outside an allocation has happened, the last decoded symbol
    line, oob, lastStep,
    \* one Huffman tree: the freq fields on entry and now, whether
    \* CxiAshEnsureTreeElements ran, the roots nodes[0 .. nRoots-1], the result
    hist0, hist, ensured, roots, tree,
    \* one function called on its own: its arguments and what it returned
    args, ret

argVars == << buffer, nSymBits, nDstBits, nPasses, qsortTies >>
compVars == << pass, tokens, symNodes, dstNodes, out, symStreamSize, lzNodes >>
decVars == << inbuf, uncompSize, outSize, outbuf, reader, reader2, symTree, distTree,
              line, oob, lastStep >>
huffVars == << hist0, hist, ensured, roots, tree >>
unitVars == << args, ret >>
vars == << pc, argVars, compVars, decVars, huffVars, unitVars >>

Rep(b, n) == [k \in 1..n |-> b]
SeqsUpTo(S, n) == UNION {[1..k -> S] : k \in 0..n}

\* "abcabcabcabcabcabc"
AbcInput == [k \in 1..18 |-> 97 + ((k - 1) % 3)]
\* 1807 times "a": one literal and seven references of the longest length
\* that 9 symbol bits allow (258)
LongRun == Rep(97, 1 + 7 * (Pow2(9) - 1 - LenSymBase + MinMatch))

\* "abababaaaabbbab": references of two lengths and three distances
MixInput == << 97, 98, 97, 98, 97, 98, 97, 97, 97, 97, 98, 98, 98, 97, 98 >>

\* the inputs explored: <<buffer, nPasses>>
Inputs ==
    ((SeqsUpTo(Bytes, MaxLen) \cup {Rep(65, n) : n \in 4..MaxRep} \cup {AbcInput, MixInput})
        \X Passes)
    \cup {<< LongRun, 0 >>}

NoReader == [srcpos |-> 0, word |-> ZeroWord, bitCapacity |-> 0, ok |-> TRUE, oob |-> FALSE]
NoStep == [kind |-> "none", sym |-> 0, distsym |-> 0, written |-> 0, remaining |-> 0]

CompIdle ==
    /\ pass = 0 /\ tokens = << >> /\ symNodes = << >> /\ dstNodes = << >> /\ out = << >>
    /\ symStreamSize = 0
    /\ lzNodes = << >>
HuffIdle ==
    /\ hist0 = << >> /\ hist = << >> /\ ensured = FALSE /\ roots = << >> /\ tree = << >>
UnitIdle == args = << >> /\ ret = << >>
DecIdle ==
    /\ uncompSize = 0 /\ outSize = 0 /\ outbuf = << >>
    /\ reader = NoReader /\ reader2 = NoReader
    /\ symTree = ReadTreeEntry(0) /\ distTree = ReadTreeEntry(0)
    /\ line = 0 /\ oob = FALSE /\ lastStep = NoStep

Init ==
    /\ pc = "tokenize"
    /\ \E in \in Inputs : buffer = in[1] /\ nPasses = in[2]
    /\ \E p \in ParamSets : nSymBits = p[1] /\ nDstBits = p[2]
    /\ qsortTies \in QsortTies
    /\ CompIdle
    /\ inbuf = << >>
    /\ DecIdle
    /\ HuffIdle
    /\ UnitIdle

(***************************************************************************)
(* CxCompressAsh                                                           *)
(***************************************************************************)
\* CxiAshTokenize; for the empty buffer realloc(tokenBuffer, 0) may return
\* NULL (then CxiAshGenHuffman reads through it: the compressor fails) or not
CompTokenize ==
    /\ pc = "tokenize"
    /\ tokens' = CxiAshTokenize(buffer, nSymBits, nDstBits)
    /\ pc' \in (IF Len(buffer) = 0 THEN {"genhuffman", "failed"} ELSE {"genhuffman"})
    /\ UNCHANGED << unitVars, argVars, pass, symNodes, dstNodes, out, symStreamSize, lzNodes,
                    decVars, huffVars >>

\* CxiAshGenHuffman, first call and the call after each retokenization
CompGenHuffman ==
    /\ pc = "genhuffman"
    /\ LET g == CxiAshGenHuffman(tokens, Pow2(nSymBits), Pow2(nDstBits), qsortTies)
       IN  symNodes' = g.sym /\ dstNodes' = g.dst
    /\ pc' = "passloop"
    /\ UNCHANGED << unitVars, argVars, pass, tokens, out, symStreamSize, lzNodes, decVars, huffVars >>

\* one iteration of for (i = 0; i < nPasses; i++): CxiAshRetokenize
CompRetokenize ==
    /\ pc = "passloop"
    /\ pass < nPasses
    /\ lzNodes' = RetokGraph(buffer, symNodes, dstNodes, qsortTies)
    /\ tokens' = RetokWalk(lzNodes')
    /\ pass' = pass + 1
    /\ pc' = "genhuffman"
    /\ UNCHANGED << unitVars, argVars, symNodes, dstNodes, out, symStreamSize, decVars, huffVars >>

Emitted(e) ==
    /\ out' = e.out
    /\ symStreamSize' = e.symStreamSize

\* the rest of CxCompressAsh: streams, trees, header
CompEmit ==
    /\ pc = "passloop"
    /\ pass = nPasses
    /\ Emitted(CxCompressAshEmit(tokens, symNodes, dstNodes, Len(buffer), nSymBits, nDstBits))
    /\ pc' = "compressed"
    /\ UNCHANGED << unitVars, argVars, pass, tokens, symNodes, dstNodes, lzNodes, decVars, huffVars >>

(***************************************************************************)
(* The file handed to the decompressor: the compressor's output, or its    *)
(* first k bytes.                                                          *)
(***************************************************************************)
FeedDecoder ==
    /\ pc = "compressed"
    /\ \E k \in 0..Len(out) : inbuf' = SubSeq(out, 1, k)
    /\ pc' = "decode"
    /\ UNCHANGED << unitVars, argVars, compVars, uncompSize, outSize, outbuf, reader, reader2,
                    symTree, distTree, line, oob, lastStep, huffVars >>

(***************************************************************************)
(* CxUncompressAsh                                                         *)
(***************************************************************************)
\* BigToLittle32(*(u32 *) (inbuf + 4)) & 0x00FFFFFF
HeaderSizeField(src, junk) ==
    Mem(src, junk, 5) * 65536 + Mem(src, junk, 6) * 256 + Mem(src, junk, 7)

\* entry up to the two CxBitReaderInit calls and the callocs
DecEnter ==
    /\ pc = "decode"
    /\ \E junk \in JunkBytes :
        /\ uncompSize' = HeaderSizeField(inbuf, junk)
        /\ outSize' = uncompSize'
        /\ outbuf' = << >>
        /\ reader' = CxBitReaderInit(inbuf, Len(inbuf), U32Val(LoadBE(inbuf, junk, 8)), junk)
        /\ reader2' = CxBitReaderInit(inbuf, Len(inbuf), HeaderSize, junk)
        /\ oob' = (Len(inbuf) < HeaderSize \/ reader'.oob \/ reader2'.oob)
        /\ pc' = IF reader'.ok /\ reader2'.ok THEN "readsymtree" ELSE "aborted"
        /\ line' = IF reader'.ok /\ reader2'.ok THEN line ELSE 47
    /\ symTree' = ReadTreeEntry(nSymBits)
    /\ distTree' = ReadTreeEntry(nDstBits)
    /\ UNCHANGED << unitVars, argVars, compVars, inbuf, lastStep, huffVars >>

\* what one iteration of the outer loop of CxAshReadTree leaves behind
ReadTreeNext(r, again, after) ==
    /\ oob' = (oob \/ r.reader.oob \/ r.rt.undefined)
    /\ pc' = IF ~r.reader.ok THEN "aborted"
             ELSE IF r.rt.undefined THEN "undefined"
             ELSE IF r.rt.nNodes # 0 THEN again ELSE after
    /\ line' = IF r.reader.ok THEN line ELSE 47

SymTreeRead(r) ==
    /\ reader2' = r.reader
    /\ symTree' = r.rt
    /\ ReadTreeNext(r, "readsymtree", "readdisttree")

DistTreeRead(r) ==
    /\ reader' = r.reader
    /\ distTree' = r.rt
    /\ ReadTreeNext(r, "readdisttree", "mainloop")

\* one iteration of the outer loop of CxAshReadTree(&reader2, symBits, ..)
DecReadSymTree ==
    /\ pc = "readsymtree"
    /\ \E junk \in JunkBytes :
        SymTreeRead(CxAshReadTreeIter(reader2, inbuf, Len(inbuf), junk, nSymBits, symTree))
    /\ UNCHANGED << unitVars, argVars, compVars, inbuf, uncompSize, outSize, outbuf, reader,
                    distTree, lastStep, huffVars >>

\* one iteration of the outer loop of CxAshReadTree(&reader, distBits, ..)
DecReadDistTree ==
    /\ pc = "readdisttree"
    /\ \E junk \in JunkBytes :
        DistTreeRead(CxAshReadTreeIter(reader, inbuf, Len(inbuf), junk, nDstBits, distTree))
    /\ UNCHANGED << unitVars, argVars, compVars, inbuf, uncompSize, outSize, outbuf, reader2,
                    symTree, lastStep, huffVars >>

\* the locals after one iteration of the main loop; line is the failed CX_ASSERT or 0
Decoded(rd, rd2, dest, remaining, ln, kind, sym, distsym) ==
    [reader |-> rd, reader2 |-> rd2, outbuf |-> dest, uncompSize |-> remaining,
     line |-> ln, kind |-> kind, sym |-> sym, distsym |-> distsym]

\* the else branch (sym >= 0x100): d is the walk of the distance tree
DecodeReference(s, d, copylen) ==
    IF ~d.reader.ok
    THEN Decoded(d.reader, s.reader, outbuf, uncompSize, 47, "none", s.sym, 0)
    ELSE IF ~U32Le(copylen, uncompSize)
    THEN Decoded(d.reader, s.reader, outbuf, uncompSize, 176, "none", s.sym, d.sym)
    ELSE IF ~(Len(outbuf) >= d.sym + 1)
    THEN Decoded(d.reader, s.reader, outbuf, uncompSize, 177, "none", s.sym, d.sym)
    ELSE Decoded(d.reader, s.reader, CopyBytes(outbuf, d.sym, copylen),
                 U32Sub(uncompSize, copylen), 0, "copy", s.sym, d.sym)

\* a main loop body that walks the distance tree for every symbol, literals too
DecodeSymEagerDistance(s, junk) ==
    IF ~s.reader.ok
    THEN Decoded(reader, s.reader, outbuf, uncompSize, 47, "none", s.sym, 0)
    ELSE IF s.sym < LenSymBase
    THEN Decoded(TreeWalk(distTree.symRoot, Pow2(nDstBits), distTree.leftTree,
                          distTree.rightTree, reader, inbuf, Len(inbuf), junk).reader,
                 s.reader, Append(outbuf, s.sym), U32Sub(uncompSize, 1), 0,
                 "literal", s.sym, 0)
    ELSE DecodeReference(s,
                         TreeWalk(distTree.symRoot, Pow2(nDstBits), distTree.leftTree,
                                  distTree.rightTree, reader, inbuf, Len(inbuf), junk),
                         (s.sym - LenSymBase) + MinMatch)

\* the body of the main loop after the walk s of the symbol tree
DecodeSym(s, junk) ==
    IF ~s.reader.ok
    THEN Decoded(reader, s.reader, outbuf, uncompSize, 47, "none", s.sym, 0)
    ELSE IF s.sym < LenSymBase
    THEN Decoded(reader, s.reader, Append(outbuf, s.sym), U32Sub(uncompSize, 1), 0,
                 "literal", s.sym, 0)
    ELSE DecodeReference(s,
                         TreeWalk(distTree.symRoot, Pow2(nDstBits), distTree.leftTree,
                                  distTree.rightTree, reader, inbuf, Len(inbuf), junk),
                         (s.sym - LenSymBase) + MinMatch)

\* one iteration of the main do .. while (uncompSize > 0)
DecodeSymbol(junk) ==
    DecodeSym(TreeWalk(symTree.symRoot, Pow2(nSymBits), symTree.leftTree,
                       symTree.rightTree, reader2, inbuf, Len(inbuf), junk), junk)

MainLoopNext(r) ==
    /\ reader' = r.reader
    /\ reader2' = r.reader2
    /\ outbuf' = r.outbuf
    /\ uncompSize' = r.uncompSize
    /\ line' = IF r.line # 0 THEN r.line ELSE line
    /\ oob' = (oob \/ r.reader.oob \/ r.reader2.oob \/ Len(r.outbuf) > outSize)
    /\ lastStep' = [kind |-> r.kind, sym |-> r.sym, distsym |-> r.distsym,
                    written |-> Len(outbuf), remaining |-> uncompSize]
    /\ pc' = IF r.line # 0 THEN "aborted"
             ELSE IF r.uncompSize # 0 THEN "mainloop" ELSE "returned"

DecMainLoop ==
    /\ pc = "mainloop"
    /\ \E junk \in JunkBytes : MainLoopNext(DecodeSymbol(junk))
    /\ UNCHANGED << unitVars, argVars, compVars, inbuf, outSize, symTree, distTree, huffVars >>

\* after an access outside an allocation the process may be killed at any point
DecFault ==
    /\ pc \in {"readsymtree", "readdisttree", "mainloop"}
    /\ oob
    /\ pc' = "crashed"
    /\ UNCHANGED << unitVars, argVars, compVars, decVars, huffVars >>

Compress == CompTokenize \/ CompGenHuffman \/ CompRetokenize \/ CompEmit
Uncompress == DecEnter \/ DecReadSymTree \/ DecReadDistTree \/ DecMainLoop \/ DecFault

Next == Compress \/ FeedDecoder \/ Uncompress
Spec == Init /\ [][Next]_vars

(***************************************************************************)
(* The decompressor on files whose header size and token list need not     *)
(* agree: the file CxCompressAsh writes for a token list, with any size in *)
(* the header.                                                             *)
(***************************************************************************)
DecTokens == {Literal(65), Reference(3, 1), Reference(4, 2)}

FileOf(toks, g, s, symBits, dstBits) ==
    CxCompressAshEmit(toks, g.sym, g.dst, s, symBits, dstBits).out

CraftedFile(toks, s, symBits, dstBits) ==
    FileOf(toks, CxiAshGenHuffman(toks, Pow2(symBits), Pow2(dstBits), "stable"),
           s, symBits, dstBits)

InitDec ==
    /\ pc = "decode"
    /\ buffer = << >> /\ nPasses = 0 /\ qsortTies = "stable"
    /\ nSymBits = 9 /\ nDstBits = 11
    /\ CompIdle
    /\ \E toks \in SeqsUpTo(DecTokens, MaxDecTokens), s \in 0..MaxDecSize :
           inbuf = CraftedFile(toks, s, nSymBits, nDstBits)
    /\ DecIdle
    /\ HuffIdle
    /\ UnitIdle

SpecDec == InitDec /\ [][Uncompress]_vars

(***************************************************************************)
(* The construction of one Huffman tree of the symbol width, from the freq *)
(* fields of a node array: CxiAshEnsureTreeElements (or not, for the trees *)
(* CxiHuffmanConstructTree builds from any histogram), then                *)
(* CxiHuffmanConstructTree step by step.                                   *)
(***************************************************************************)
HuffSymbols == {0, 1, 65, 256, 300}
HuffNodes == Pow2(9)

InitHuff ==
    /\ pc \in {"ensure", "sort"}
    /\ buffer = << >> /\ nPasses = 0 /\ qsortTies \in QsortTies
    /\ nSymBits = 9 /\ nDstBits = 11
    /\ CompIdle
    /\ inbuf = << >>
    /\ DecIdle
    /\ hist0 \in [HuffSymbols -> 0..MaxFreq]
    /\ hist = hist0
    /\ ensured = FALSE /\ roots = << >> /\ tree = << >>
    /\ UnitIdle

\* CxiAshEnsureTreeElements(nodes, nNodes, 2)
HuffEnsure ==
    /\ pc = "ensure"
    /\ hist' = CxiAshEnsureTreeElements(hist, HuffNodes, 2)
    /\ ensured' = TRUE
    /\ pc' = "sort"
    /\ UNCHANGED << unitVars, argVars, compVars, decVars, hist0, roots, tree >>

\* the first qsort and the cut at the first node of freq 0
HuffSort ==
    /\ pc = "sort"
    /\ roots' = HuffSortCut(hist, qsortTies)
    /\ pc' = "merge"
    /\ UNCHANGED << unitVars, argVars, compVars, decVars, hist0, hist, ensured, tree >>

\* one iteration of while (nRoots > 1)
HuffMerge ==
    /\ pc = "merge"
    /\ Len(roots) > 1
    /\ roots' = HuffMergeStep(roots, qsortTies)
    /\ UNCHANGED << unitVars, pc, argVars, compVars, decVars, hist0, hist, ensured, tree >>

\* CxiHuffmanMakeShallowFirst(nodes) and return
HuffShallowFirst ==
    /\ pc = "merge"
    /\ Len(roots) <= 1
    /\ tree' = IF roots = << >> THEN AllZeroRoot(HuffNodes, qsortTies)
               ELSE CxiHuffmanMakeShallowFirst(roots[1])
    /\ pc' = "built"
    /\ UNCHANGED << unitVars, argVars, compVars, decVars, hist0, hist, ensured, roots >>

NextHuff == HuffEnsure \/ HuffSort \/ HuffMerge \/ HuffShallowFirst
SpecHuff == InitHuff /\ [][NextHuff]_vars

(***************************************************************************)
(* One tree from the encoder to the decoder, over an alphabet of 2^w       *)
(* symbols small enough to be used in full: CxiHuffmanConstructTree step   *)
(* by step on a histogram as CxiAshEnsureTreeElements leaves it (two or    *)
(* more symbols present), CxiAshWriteTree at the head of a stream, then    *)
(* CxAshReadTree on that stream.                                           *)
(***************************************************************************)
TreeFreqs == {0, 1, MaxFreq}

\* the histograms over 2^w symbols with two or more symbols present
TreeHists(w) ==
    {h \in [0..(Pow2(w) - 1) -> TreeFreqs] : Cardinality({sy \in DOMAIN h : h[sy] # 0}) >= 2}

InitTree ==
    /\ pc = "sort"
    /\ buffer = << >> /\ nPasses = 0 /\ qsortTies \in QsortTies
    /\ nSymBits \in 1..MaxWidth /\ nDstBits = 11
    /\ CompIdle
    /\ inbuf = << >>
    /\ DecIdle
    /\ hist0 \in UNION {TreeHists(w) : w \in 1..MaxWidth}
    /\ DOMAIN hist0 = 0..(Pow2(nSymBits) - 1)
    /\ hist = hist0
    /\ ensured = TRUE /\ roots = << >> /\ tree = << >>
    /\ UnitIdle

\* the stream holding the tree, as CxCompressAsh copies it out, and what
\* follows the tree in it: nothing, or one word of data
TreeStream(t, width, nData) ==
    CxiBitStreamGetBytes(CxiAshWriteTree(CxiBitStreamCreate, t, width), TRUE, TRUE, TRUE)
    \o [i \in 1..nData |-> 0]

\* CxiAshWriteTree at the head of the stream; CxBitReaderInit on the stream
\* and entry into CxAshReadTree
TreeWrite ==
    /\ pc = "built"
    /\ \E nData \in {0, 4} : inbuf' = TreeStream(tree, nSymBits, nData)
    /\ \E junk \in JunkBytes : reader2' = CxBitReaderInit(inbuf', Len(inbuf'), 0, junk)
    /\ symTree' = ReadTreeEntry(nSymBits)
    /\ pc' = "readtree"
    /\ UNCHANGED << unitVars, argVars, compVars, uncompSize, outSize, outbuf, reader,
                    distTree, line, oob, lastStep, huffVars >>

TreeReadTo(r) ==
    /\ reader2' = r.reader
    /\ symTree' = r.rt
    /\ ReadTreeNext(r, "readtree", "treeread")

\* one iteration of the outer loop of CxAshReadTree on the stream
TreeRead ==
    /\ pc = "readtree"
    /\ \E junk \in JunkBytes :
        TreeReadTo(CxAshReadTreeIter(reader2, inbuf, Len(inbuf), junk, nSymBits, symTree))
    /\ UNCHANGED << unitVars, argVars, compVars, inbuf, uncompSize, outSize, outbuf, reader,
                    distTree, lastStep, huffVars >>

NextTree == HuffSort \/ HuffMerge \/ HuffShallowFirst \/ TreeWrite \/ TreeRead
SpecTree == InitTree /\ [][NextTree]_vars

(***************************************************************************)
(* Single calls: one function of the two programs called on its own, on    *)
(* arguments the programs can pass it.                                     *)
(***************************************************************************)
\* the files the bit reader is run on
BitSources ==
    { << 165, 60, 255, 0 >>,
      << 165, 60, 255, 0, 15, 240, 129, 126 >>,
      << 0, 0, 0, 1, 255, 255, 255, 254, 90, 195, 36, 219 >> }

RECURSIVE AdvanceBits(_, _, _)
\* the reader after c calls of CxBitReaderReadBit
AdvanceBits(r, src, c) ==
    IF c = 0 THEN r
    ELSE AdvanceBits(CxBitReaderReadBit(r, src, Len(src), 0).reader, src, c - 1)

\* a reader started at a word of src and c bits into that word
BitsArgs ==
    {[fn |-> "ReadBits", src |-> src, nBits |-> n,
      reader |-> AdvanceBits(CxBitReaderInit(src, Len(src), 4 * p, 0), src, c)] :
        src \in BitSources, p \in 0..2, c \in 0..31, n \in 1..MaxReadBits}

RECURSIVE ReadBitByBit(_, _, _, _)
\* one of the n calls: b is the result of CxBitReaderReadBit
ReadBitStep(b, src, n, acc) == ReadBitByBit(b.reader, src, n - 1, 2 * acc + b.bit)

\* n calls of CxBitReaderReadBit, the bits assembled most significant first
ReadBitByBit(r, src, n, acc) ==
    IF n = 0 THEN [bits |-> acc, reader |-> r]
    ELSE ReadBitStep(CxBitReaderReadBit(r, src, Len(src), 0), src, n, acc)

\* the buffers the LZ functions are run on
SearchBufs == SeqsUpTo(Bytes, MaxBuf) \ {<< >>}

\* CxiSearchLZ at a position of a buffer; CxiAshTokenize passes minDistance 1,
\* maxDistance 2^nDstBits and maxLength 258
SearchArgs ==
    UNION {{[fn |-> "SearchLZ", buf |-> buf, pos |-> pos, minDistance |-> mind,
             maxDistance |-> maxd, maxLength |-> maxl] :
                pos \in 0..(Len(buf) - 1), mind \in {1, 2},
                maxd \in {1, 2, Pow2(11)}, maxl \in {3, Pow2(9) - 1 - LenSymBase + MinMatch}} :
           buf \in SearchBufs}

\* CxiSearchLZRestricted at a position of a buffer, the distances ascending as
\* CxiAshRetokenize lists them
RestrictedArgs ==
    UNION {{[fn |-> "SearchLZRestricted", buf |-> buf, pos |-> pos,
             distances |-> SetToSeq(ds), maxLength |-> maxl] :
                pos \in 0..(Len(buf) - 1), ds \in SUBSET {1, 2, 3, 5}, maxl \in {3, 4}} :
           buf \in SearchBufs}

\* CxiLzConfirmMatch with 1 <= distance <= pos and pos + length <= size
ConfirmArgs ==
    UNION {{[fn |-> "ConfirmMatch", buf |-> buf, pos |-> pd[1], distance |-> pd[2],
             length |-> l] :
                pd \in {x \in (1..Len(buf)) \X (1..Len(buf)) : x[2] <= x[1] /\ x[1] < Len(buf)},
                l \in 0..Len(buf)} :
           buf \in SearchBufs}

UnitArgs ==
    {a \in BitsArgs : a.reader.ok} \cup SearchArgs \cup RestrictedArgs
    \cup {a \in ConfirmArgs : a.pos + a.length <= Len(a.buf)}

InitUnit ==
    /\ pc = "call"
    /\ buffer = << >> /\ nPasses = 0 /\ qsortTies = "stable"
    /\ nSymBits = 9 /\ nDstBits = 11
    /\ CompIdle
    /\ inbuf = << >>
    /\ DecIdle
    /\ HuffIdle
    /\ args \in UnitArgs
    /\ ret = << >>

\* CxBitReaderReadBits(reader, nBits), and nBits calls of CxBitReaderReadBit
\* from the same reader
UnitReadBits ==
    /\ pc = "call"
    /\ args.fn = "ReadBits"
    /\ ret' = [atOnce |-> CxBitReaderReadBits(args.reader, args.src, Len(args.src), 0,
                                              args.nBits),
               bitByBit |-> ReadBitByBit(args.reader, args.src, args.nBits, 0)]
    /\ pc' = "called"
    /\ UNCHANGED << args, argVars, compVars, decVars, huffVars >>

\* CxiSearchLZ(buffer + pos, size, pos, minDistance, maxDistance, maxLength, &distance)
UnitSearchLZ ==
    /\ pc = "call"
    /\ args.fn = "SearchLZ"
    /\ ret' = CxiSearchLZ(args.buf, Len(args.buf), args.pos, args.minDistance,
                          args.maxDistance, args.maxLength)
    /\ pc' = "called"
    /\ UNCHANGED << args, argVars, compVars, decVars, huffVars >>

\* CxiSearchLZRestricted(buffer + pos, size, pos, distances, nDistances, maxLength, &distance)
UnitSearchLZRestricted ==
    /\ pc = "call"
    /\ args.fn = "SearchLZRestricted"
    /\ ret' = CxiSearchLZRestricted(args.buf, Len(args.buf), args.pos, args.distances,
                                    args.maxLength)
    /\ pc' = "called"
    /\ UNCHANGED << args, argVars, compVars, decVars, huffVars >>

\* CxiLzConfirmMatch(buffer, size, pos, distance, length)
UnitConfirmMatch ==
    /\ pc = "call"
    /\ args.fn = "ConfirmMatch"
    /\ ret' = CxiLzConfirmMatch(args.buf, Len(args.buf), args.pos, args.distance,
                                args.length)
    /\ pc' = "called"
    /\ UNCHANGED << args, argVars, compVars, decVars, huffVars >>

NextUnit == UnitReadBits \/ UnitSearchLZ \/ UnitSearchLZRestricted \/ UnitConfirmMatch
SpecUnit == InitUnit /\ [][NextUnit]_vars

(***************************************************************************)
(* Properties                                                              *)
(***************************************************************************)
\* CxUncompressAsh is past its entry
Decoding ==
    pc \in {"readsymtree", "readdisttree", "mainloop", "returned", "aborted",
            "crashed", "undefined"}
\* the decompressor was handed the whole output of the compressor
Untruncated == Decoding /\ out # << >> /\ Len(inbuf) = Len(out)
\* the decompressor was handed a proper prefix of the output of the compressor
Truncated == Decoding /\ Len(inbuf) < Len(out)
\* the big-endian word at byte offset i of f (below 2^31)
BE32(f, i) == ((f[i + 1] * 256 + f[i + 2]) * 256 + f[i + 3]) * 256 + f[i + 4]

\* C1: decoding the whole output of the compressor never aborts, crashes or
\* runs into undefined behaviour, and what it returns is the input buffer.
C1_RoundTrip ==
    Untruncated =>
        /\ pc \notin {"aborted", "crashed", "undefined"}
        /\ pc = "returned" => (outbuf = buffer /\ outSize = Len(buffer))

\* C2: every file written starts with "ASH0", holds the buffer size in the
\* low 24 bits of its second word, and its third word is 12 plus the size of
\* the symbol stream, at least 12, a multiple of 4 and below the file size.
C2_Header ==
    out # << >> =>
        /\ SubSeq(out, 1, 4) = << 65, 83, 72, 48 >>
        /\ (out[6] * 256 + out[7]) * 256 + out[8] = Len(buffer)
        /\ BE32(out, 8) = 12 + symStreamSize
        /\ BE32(out, 8) >= 12
        /\ BE32(out, 8) % 4 = 0
        /\ BE32(out, 8) < Len(out)

\* a file was written for the 18-byte input, its distance stream at offset 20
C2_Witness ==
    pc = "compressed" /\ buffer = AbcInput /\ BE32(out, 8) = 20 /\ Len(out) = 24

\* C3: decoding a proper prefix of the compressor's output reads nothing
\* outside the prefix, returns nothing, and ends only by the failed bounds
\* assertion of the refill.
C3_Truncation ==
    Truncated =>
        /\ ~oob
        /\ pc \notin {"returned", "crashed", "undefined"}
        /\ pc = "aborted" => line = 47

\* C4: a copy happens only for a length that fits the output still to be
\* produced and a distance that lies within the output produced so far, it
\* never writes past the end of the output buffer, and a failed validation
\* aborts with nothing written.
C4_BackReference ==
    /\ lastStep.kind = "copy" =>
           /\ (lastStep.sym - LenSymBase) + MinMatch <= outSize - lastStep.written
           /\ lastStep.distsym + 1 <= lastStep.written
           /\ Len(outbuf) <= outSize
    /\ (pc = "aborted" /\ line \in {176, 177}) => Len(outbuf) = lastStep.written

\* C5: the bytes written never exceed the header size, the remaining counter
\* is the header size minus the bytes written (it never wraps), and the loop
\* returns with exactly the header size written.
C5_StopsAtSize ==
    Decoding =>
        /\ Len(outbuf) <= outSize
        /\ uncompSize = outSize - Len(outbuf)
        /\ pc = "returned" => Len(outbuf) = outSize

\* one byte value repeated at least four times
IsRun(b) == Len(b) >= 4 /\ \A k \in 1..Len(b) : b[k] = b[1]

\* C6: for a buffer of one repeated byte value the tokens emitted hold a
\* reference longer than its distance, and decoding the whole output never
\* fails and returns the buffer.
C6_Overlap ==
    IsRun(buffer) =>
        /\ out # << >> =>
               \E i \in 1..Len(tokens) :
                   tokens[i].isReference /\ tokens[i].length > tokens[i].distance
        /\ Untruncated =>
               /\ pc \notin {"aborted", "crashed", "undefined"}
               /\ pc = "returned" => outbuf = buffer

RECURSIVE Leaves(_)
\* the leaf symbols of a tree, left to right
Leaves(n) == IF ISLEAF(n) THEN << n.sym >> ELSE Leaves(n.left) \o Leaves(n.right)

RECURSIVE ShallowFirst(_)
\* at every internal node the left subtree has no more leaves than the right
\* one, by count and by the nRepresent fields
ShallowFirst(n) ==
    \/ ISLEAF(n)
    \/ /\ Len(Leaves(n.left)) <= Len(Leaves(n.right))
       /\ n.left.nRepresent <= n.right.nRepresent
       /\ n.nRepresent = Len(Leaves(n))
       /\ ShallowFirst(n.left)
       /\ ShallowFirst(n.right)

\* C7: the tree CxiHuffmanConstructTree returns has pairwise distinct leaf
\* symbols, and at every internal node the left subtree has no more leaves
\* than the right one.
C7_HuffmanShape ==
    pc = "built" =>
        /\ \A i, j \in 1..Len(Leaves(tree)) :
               Leaves(tree)[i] = Leaves(tree)[j] => i = j
        /\ ShallowFirst(tree)

\* a tree was built whose root the merge loop left with more leaves on the left
C7_Witness ==
    /\ pc = "built"
    /\ roots # << >>
    /\ ~ISLEAF(roots[1])
    /\ roots[1].left.nRepresent > roots[1].right.nRepresent
    /\ tree.left.nRepresent < tree.right.nRepresent

\* the length of the match at p with distance d, capped at cap: the bytes from
\* p on equal, one by one, the bytes d before them
MatchLength(buf, p, d, cap) ==
    LET differ == {i \in 0..(cap - 1) : buf[p + i + 1] # buf[p - d + i + 1]}
    IN  IF differ = {} THEN cap ELSE CHOOSE i \in differ : \A k \in differ : i <= k

\* <<l, d>>: the longest match at p over the distances 1..min(maxDist, p) and
\* the smallest distance that reaches it; <<0, 0>> without any distance
LongestMatch(buf, p, maxDist, cap) ==
    LET dists == 1..Min(maxDist, p)
        len == [d \in dists |-> MatchLength(buf, p, d, cap)]
        best == CHOOSE l \in {len[d] : d \in dists} : \A d \in dists : len[d] <= l
    IN  IF dists = {} THEN << 0, 0 >>
        ELSE << best, CHOOSE d \in dists : len[d] = best /\ \A e \in dists : len[e] = best => d <= e >>

RECURSIVE TokenPos(_, _)
\* the position at which token i starts
TokenPos(toks, i) ==
    IF i = 1 THEN 0
    ELSE TokenPos(toks, i - 1)
         + (IF toks[i - 1].isReference THEN toks[i - 1].length ELSE 1)

\* the token the greedy rule asks for at p: m is the longest match there
GreedyToken(buf, p, m) ==
    IF m[1] >= 3 THEN Reference(m[1], m[2]) ELSE Literal(buf[p + 1])

\* C8: every token CxiAshTokenize emits is the reference to the longest match
\* at its position, at the smallest distance reaching it, when that match has
\* at least 3 bytes, and the literal at its position otherwise; the tokens
\* cover the buffer; "abcabcabcabcabcabc" gives a, b, c and one reference of
\* length 15 at distance 3.
C8_Greedy ==
    (pc = "genhuffman" /\ pass = 0) =>
        /\ \A i \in 1..Len(tokens) :
               tokens[i] = GreedyToken(buffer, TokenPos(tokens, i),
                                       LongestMatch(buffer, TokenPos(tokens, i),
                                                    Pow2(nDstBits),
                                                    Min(Pow2(nSymBits) - 1 - 256 + 3,
                                                        Len(buffer) - TokenPos(tokens, i))))
        /\ TokenPos(tokens, Len(tokens) + 1) = Len(buffer)
        /\ buffer = AbcInput =>
               tokens = << Literal(97), Literal(98), Literal(99), Reference(15, 3) >>

\* the tokenizer has emitted a reference after three literals
C8_Witness ==
    /\ pc = "genhuffman" /\ pass = 0
    /\ Len(tokens) = 4
    /\ tokens[4].isReference /\ tokens[4].length = 15 /\ tokens[4].distance = 3

\* the symbols of nonzero frequency
Present(h) == {sy \in DOMAIN h : sy < HuffNodes /\ h[sy] # 0}
\* the symbols whose frequency is nonzero in h and zero in h0
Promoted(h0, h) == {sy \in Present(h) : FreqOf(h0, sy) = 0}
\* two histograms with the same frequencies
SameFreqs(h1, h2) == \A sy \in 0..(HuffNodes - 1) : FreqOf(h1, sy) = FreqOf(h2, sy)

\* C9: with two or more symbols present CxiAshEnsureTreeElements changes no
\* frequency; with fewer it leaves exactly two present, the new ones with
\* frequency 1 and every symbol below a new one present, and changes no other
\* frequency; the tree built afterwards has an internal root, and for the
\* histogram of the input "A" its leaves are 0x00 and 0x41.
C9_Ensure ==
    ensured =>
        /\ Cardinality(Present(hist0)) >= 2 => SameFreqs(hist, hist0)
        /\ Cardinality(Present(hist0)) < 2 =>
               /\ Cardinality(Present(hist)) = 2
               /\ \A a \in Promoted(hist0, hist) :
                      /\ hist[a] = 1
                      /\ \A t \in 0..(a - 1) : FreqOf(hist, t) # 0
               /\ \A sy \in 0..(HuffNodes - 1) :
                      sy \notin Promoted(hist0, hist) => FreqOf(hist, sy) = FreqOf(hist0, sy)
        /\ pc = "built" => ~ISLEAF(tree)
        /\ (pc = "built"
            /\ SameFreqs(hist0, SymHistogram(CxiAshTokenize(<< 65 >>, 9, 11)))) =>
               {Leaves(tree)[i] : i \in 1..Len(Leaves(tree))} = {0, 65}

\* a tree was built from a histogram whose only symbol was 0: symbol 1 was promoted
C9_Witness ==
    /\ pc = "built"
    /\ ensured
    /\ Present(hist0) = {0}
    /\ Promoted(hist0, hist) = {1}
    /\ {Leaves(tree)[i] : i \in 1..Len(Leaves(tree))} = {0, 1}

\* C10: decoding the whole output of the compressor for a non-empty buffer
\* never fails the bounds assertion of the refill.
C10_NoFalseTruncation ==
    (Untruncated /\ buffer # << >>) => ~(pc = "aborted" /\ line = 47)

\* the bits of a stream in the order written
StreamBits(stream) ==
    [i \in 1..stream.length |-> stream.bits[((i - 1) \div 32) + 1][((i - 1) % 32) + 1]]

\* the bits CxiHuffmanWriteSymbol emits for sym
CodeOf(sym, t) == StreamBits(CxiHuffmanWriteSymbol(CxiBitStreamCreate, sym, t))

RECURSIVE WalkCode(_, _, _, _, _)
\* the walk of the decoder from index node along code[i], code[i + 1], ..:
\* <<index reached, bits consumed>>, the index being -1 when the code runs out
WalkCode(node, code, i, max, rt) ==
    IF node < max THEN << node, i - 1 >>
    ELSE IF i > Len(code) THEN << 0 - 1, i - 1 >>
    ELSE WalkCode(IF code[i] = 0 THEN ArrayGet(rt.leftTree, node)
                  ELSE ArrayGet(rt.rightTree, node),
                  code, i + 1, max, rt)

\* the number of bits a reader that started at byte start has consumed
ReaderBits(r, start) == (r.srcpos - start - 4) * 8 + r.bitCapacity

\* the tree rt read by CxAshReadTree with reader r from byte start agrees with
\* the tree t written at width w
TreeAgrees(t, w, rt, r, start) ==
    /\ ReaderBits(r, start) = CxiAshWriteTree(CxiBitStreamCreate, t, w).length
    /\ \A k \in 1..Len(Leaves(t)) :
           WalkCode(rt.symRoot, CodeOf(Leaves(t)[k], t), 1, Pow2(w), rt)
               = << Leaves(t)[k], Len(CodeOf(Leaves(t)[k], t)) >>
    /\ \A k \in 1..Len(Leaves(t)) : Leaves(t)[k] < Pow2(w)

\* C11: after CxAshReadTree has read the bits CxiAshWriteTree wrote for a tree
\* of the encoder, the code CxiHuffmanWriteSymbol emits for each leaf symbol,
\* walked from the returned root through leftTree (0) and rightTree (1), ends
\* at that symbol, below 2^w, after exactly those bits; and CxAshReadTree has
\* consumed exactly the bits CxiAshWriteTree wrote.
C11_TreeCodec ==
    Untruncated =>
        /\ pc = "readdisttree" =>
               TreeAgrees(symNodes, nSymBits, symTree, reader2, HeaderSize)
        /\ (pc = "mainloop" /\ lastStep = NoStep) =>
               /\ TreeAgrees(symNodes, nSymBits, symTree, reader2, HeaderSize)
               /\ TreeAgrees(dstNodes, nDstBits, distTree, reader,
                             HeaderSize + symStreamSize)

\* both trees of "abcabcabcabcabcabc" were read: four leaves in the symbol tree
C11_Witness ==
    /\ Untruncated
    /\ pc = "mainloop" /\ lastStep = NoStep
    /\ buffer = AbcInput
    /\ Len(Leaves(symNodes)) = 4
    /\ Cardinality(DOMAIN symTree.leftTree) = 3
    /\ Cardinality(DOMAIN distTree.rightTree) = 1

\* one iteration of the main loop that did not end in a failed assertion
MacroStep == pc = "mainloop" /\ pc' \in {"mainloop", "returned"}

\* what a macro-step does to the two readers and to the output
LockStep ==
    /\ MacroStep => lastStep'.kind \in {"literal", "copy"}
    /\ (MacroStep /\ lastStep'.kind = "literal") =>
           /\ lastStep'.sym < 256
           /\ reader' = reader
           /\ outbuf' = Append(outbuf, lastStep'.sym)
    /\ (MacroStep /\ lastStep'.kind = "copy") =>
           /\ lastStep'.sym >= 256
           /\ lastStep'.distsym < Pow2(nDstBits)
           /\ Len(outbuf') = Len(outbuf) + (lastStep'.sym - 256) + 3
           /\ SubSeq(outbuf', 1, Len(outbuf)) = outbuf
    /\ (pc = "mainloop" /\ reader' # reader) => lastStep'.sym >= 256
    /\ (MacroStep /\ Untruncated' /\ ~oob') =>
           /\ ReaderBits(reader2', HeaderSize) - ReaderBits(reader2, HeaderSize)
                  = Len(CodeOf(lastStep'.sym, symNodes))
           /\ ReaderBits(reader', HeaderSize) - ReaderBits(reader, HeaderSize)
                  = IF lastStep'.kind = "copy"
                    THEN Len(CodeOf(lastStep'.distsym, dstNodes)) ELSE 0

\* C12: each macro-step of the decoder reads one symbol from the sym reader
\* and then either emits one literal without touching the dist reader, or,
\* for a symbol >= 0x100, decodes exactly one distance symbol from the dist
\* reader and performs one copy; after the trees the dist reader advances
\* only in macro-steps whose symbol is a length code.
C12_LockStep == [][LockStep]_vars

\* a copy was decoded right after a literal
C12_Witness ==
    /\ Untruncated
    /\ pc \in {"mainloop", "returned"}
    /\ lastStep.kind = "copy"
    /\ lastStep.written = 1
    /\ Len(outbuf) = 4

\* the fields of a reader the program holds
ReaderState(r) == << r.word, r.bitCapacity, r.srcpos >>

\* C13: from a reader with bitCapacity in 0..31 and for 1 <= n <= 16,
\* CxBitReaderReadBits(n) returns the value of n successive CxBitReaderReadBit
\* calls assembled most significant bit first, leaves the reader in the same
\* state (word, bitCapacity, srcpos) and fails the refill bounds assertion in
\* exactly the same cases; bitCapacity stays in 0..31.
C13_ReadBits ==
    (pc = "called" /\ args.fn = "ReadBits") =>
        /\ args.reader.bitCapacity \in 0..31
        /\ ret.atOnce.reader.ok = ret.bitByBit.reader.ok
        /\ ret.atOnce.reader.ok =>
               /\ ret.atOnce.bits = ret.bitByBit.bits
               /\ ReaderState(ret.atOnce.reader) = ReaderState(ret.bitByBit.reader)
               /\ ret.atOnce.reader.bitCapacity \in 0..31

\* bits were read across two words, some of them ones from each word
C13_Witness ==
    /\ pc = "called" /\ args.fn = "ReadBits"
    /\ args.reader.bitCapacity + args.nBits > 32
    /\ ret.atOnce.reader.ok
    /\ ret.atOnce.bits >= Pow2(args.nBits - 1)
    /\ ret.atOnce.bits % 2 = 1

\* buffer[pos + k] = buffer[pos - d + (k mod d)] for all k < m
RepeatsUpTo(buf, pos, d, m) ==
    \A k \in 0..(m - 1) : buf[pos + k + 1] = buf[pos - d + (k % d) + 1]

\* the overlap-aware match length at distance d: the largest m <= cap with
\* RepeatsUpTo
OverlapMatch(buf, pos, d, cap) ==
    CHOOSE m \in 0..cap :
        /\ RepeatsUpTo(buf, pos, d, m)
        /\ \A m2 \in 0..cap : RepeatsUpTo(buf, pos, d, m2) => m2 <= m

\* <<l, d>>: the largest overlap-aware match length over the distances ds and
\* the smallest distance attaining it; <<0, 0>> when ds is empty or l is 0
BestMatch(buf, pos, ds, cap) ==
    IF \A d \in ds : OverlapMatch(buf, pos, d, cap) = 0 THEN << 0, 0 >>
    ELSE LET d == CHOOSE d \in ds :
                      \A e \in ds :
                          \/ OverlapMatch(buf, pos, e, cap) < OverlapMatch(buf, pos, d, cap)
                          \/ (OverlapMatch(buf, pos, e, cap) = OverlapMatch(buf, pos, d, cap)
                              /\ d <= e)
         IN  << OverlapMatch(buf, pos, d, cap), d >>

\* C14: CxiSearchLZ returns (l, d), l the largest overlap-aware match length
\* (capped at min(max_len, n - pos)) over the distances min_dist ..
\* min(max_dist, pos) and d the smallest distance attaining it, (0, 0) when
\* there is no candidate distance or no byte matches; CxiSearchLZRestricted
\* returns the same over the listed distances <= pos.
C14_Search ==
    /\ (pc = "called" /\ args.fn = "SearchLZ") =>
           ret = BestMatch(args.buf, args.pos,
                           args.minDistance..Min(args.maxDistance, args.pos),
                           Min(args.maxLength, Len(args.buf) - args.pos))
    /\ (pc = "called" /\ args.fn = "SearchLZRestricted") =>
           ret = BestMatch(args.buf, args.pos,
                           {args.distances[i] : i \in 1..Len(args.distances)}
                               \cap (1..args.pos),
                           Min(args.maxLength, Len(args.buf) - args.pos))

\* a match longer than its distance was found, a larger distance matching less
C14_Witness ==
    /\ pc = "called" /\ args.fn = "SearchLZ"
    /\ args.pos >= 2
    /\ ret[1] > ret[2]
    /\ ret[2] = 1
    /\ OverlapMatch(args.buf, args.pos, 2, Len(args.buf) - args.pos) < ret[1]

\* C15: for 1 <= d <= pos and pos + l <= n, CxiLzConfirmMatch(buffer, pos, d, l)
\* is true iff the decoder's copy of l bytes, one at a time from pos - d,
\* reproduces buffer[pos .. pos + l), that is iff buffer[pos + k] =
\* buffer[pos + k - d] for all k < l; it accepts exactly the lengths up to the
\* match length the linear compare of the LZ search measures at distance d.
C15_Confirm ==
    (pc = "called" /\ args.fn = "ConfirmMatch") =>
        /\ ret = (CopyBytes(SubSeq(args.buf, 1, args.pos), args.distance - 1, args.length)
                      = SubSeq(args.buf, 1, args.pos + args.length))
        /\ ret = (\A k \in 0..(args.length - 1) :
                      args.buf[args.pos + k + 1] = args.buf[args.pos + k - args.distance + 1])
        /\ ret = (args.length <= CxiCompareMemory(args.buf, args.pos - args.distance,
                                                  args.pos, args.distance,
                                                  Len(args.buf) - args.pos))

\* a match longer than its distance was confirmed, over two different bytes
C15_Witness ==
    /\ pc = "called" /\ args.fn = "ConfirmMatch"
    /\ ret
    /\ args.distance = 2
    /\ args.length > args.distance
    /\ args.buf[args.pos + 1] # args.buf[args.pos + 2]

\* the number of code bits of a token under the trees sym and dst
TokenBits(t, sym, dst) ==
    IF t.isReference
    THEN Len(CodeOf(t.length - 3 + 256, sym)) + Len(CodeOf(t.distance - 1, dst))
    ELSE Len(CodeOf(t.symbol, sym))

RECURSIVE PathBits(_, _, _, _)
\* the code bits of the path that starts at position p of the graph and
\* follows each node's stored token to the end of the input
PathBits(graph, p, sym, dst) ==
    IF p >= Len(graph) THEN 0
    ELSE TokenBits(graph[p + 1].token, sym, dst)
         + PathBits(graph,
                    p + (IF graph[p + 1].token.isReference
                         THEN graph[p + 1].token.length ELSE 1),
                    sym, dst)

\* CxiAshRetokenize has returned and the trees are still those it was given
Retokenized == pc = "genhuffman" /\ pass > 0

\* C16: after the reverse scan of CxiAshRetokenize the weight of every
\* position p is the total number of code bits, under the trees of the pass,
\* of the token path from p to the end of the input.
C16_Weights ==
    Retokenized =>
        /\ Len(lzNodes) = Len(buffer)
        /\ \A p \in 0..(Len(buffer) - 1) :
               lzNodes[p + 1].weight = PathBits(lzNodes, p, symNodes, dstNodes)

\* the graph of "abcabcabcabcabcabc": a reference at position 3, whose weight
\* counts a length code and a distance code, after three literals
C16_Witness ==
    /\ Retokenized
    /\ buffer = AbcInput
    /\ lzNodes[4].token = Reference(15, 3)
    /\ lzNodes[4].weight >= 2
    /\ lzNodes[1].weight >= lzNodes[4].weight + 3
    /\ ~lzNodes[5].token.isReference

\* the ascending lists of lengths and of distances CxiAshRetokenize allows:
\* the length symbols of the sym tree, the symbols of the dist tree
LensOf(sym) ==
    SetToSeq({Leaves(sym)[i] - 256 + 3 :
                 i \in {j \in 1..Len(Leaves(sym)) : Leaves(sym)[j] >= 256}})
DstsOf(dst) == SetToSeq({Leaves(dst)[i] + 1 : i \in 1..Len(Leaves(dst))})

\* the length the restricted search finds at p
FoundAt(buf, p, lens, dsts) ==
    IF lens = << >> THEN 0
    ELSE CxiSearchLZRestricted(buf, Len(buf), p, dsts, lens[Len(lens)])[1]

\* the admissible length l0 that length rounds down to, 0 when length < 3
RoundedFrom(length, lens) ==
    IF length >= 3 THEN CxiAshRoundDown(length, lens)[1] ELSE 0

RECURSIVE Visited(_, _)
\* the candidate lengths from l on: l, round_down(l - 1), .. until 0
Visited(l, lens) ==
    IF l = 0 THEN << >>
    ELSE << l >> \o Visited(CxiAshRoundDown(l - 1, lens)[1], lens)

\* the cost of candidate c at p: the code depth of its length symbol, or of
\* the literal, plus the weight of the node it leads to
CandidateCost(graph, buf, p, c, sym) ==
    (IF c = 1 THEN Len(CodeOf(buf[p + 1], sym)) ELSE Len(CodeOf(c - 3 + 256, sym)))
    + (IF p + c = Len(buf) THEN 0 ELSE graph[p + c + 1].weight)

\* the length of the token stored at p
ChosenAt(graph, p) ==
    IF graph[p + 1].token.isReference THEN graph[p + 1].token.length ELSE 1

\* the choice at p among the candidates vis visited from l0
ChoiceAmong(graph, buf, p, sym, lens, l0, vis) ==
    /\ vis[1] = l0 /\ vis[Len(vis)] = 1
    /\ \A i \in 1..(Len(vis) - 1) : vis[i] > vis[i + 1]
    /\ {vis[i] : i \in 1..Len(vis)}
           = {lens[i] : i \in {j \in 1..Len(lens) : lens[j] <= l0}} \cup {1}
    /\ \E i \in 1..Len(vis) : vis[i] = ChosenAt(graph, p)
    /\ \A i \in 1..Len(vis) :
           \/ CandidateCost(graph, buf, p, ChosenAt(graph, p), sym)
                  < CandidateCost(graph, buf, p, vis[i], sym)
           \/ /\ CandidateCost(graph, buf, p, ChosenAt(graph, p), sym)
                     = CandidateCost(graph, buf, p, vis[i], sym)
              /\ vis[i] <= ChosenAt(graph, p)

\* the choice at p when the search rounds down to l0
ChoiceFrom(graph, buf, p, sym, lens, l0) ==
    l0 >= 3 => ChoiceAmong(graph, buf, p, sym, lens, l0, Visited(l0, lens))

\* C17: at every position where the restricted search finds a match of
\* length >= 3 that rounds down to an admissible l0 >= 3, the candidates
\* visited are l0 and each successive round_down(c - 1) down to 1, strictly
\* decreasing; the length chosen minimises the code depth of the candidate
\* plus the weight of the node it leads to (0 at the end of the input), the
\* longest candidate winning ties.
C17_LengthChoice ==
    Retokenized =>
        \A p \in 0..(Len(buffer) - 1) :
            ChoiceFrom(lzNodes, buffer, p, symNodes, LensOf(symNodes),
                       RoundedFrom(FoundAt(buffer, p, LensOf(symNodes), DstsOf(dstNodes)),
                                   LensOf(symNodes)))

\* in "abababaaaabbbab" the lengths 3 and 5 are admissible: at position 2 the
\* candidates are 5, 3, 1 and 5 is chosen; at position 3 a match of 4 rounds
\* down to 3
C17_Witness ==
    /\ Retokenized
    /\ buffer = MixInput
    /\ LensOf(symNodes) = << 3, 5 >>
    /\ Visited(5, LensOf(symNodes)) = << 5, 3, 1 >>
    /\ ChosenAt(lzNodes, 2) = 5
    /\ FoundAt(buffer, 3, LensOf(symNodes), DstsOf(dstNodes)) = 4
    /\ ChosenAt(lzNodes, 3) = 3

\* token t, standing at position p of buf, is a valid token: a literal
\* carries the byte at p, a reference copies bytes that are there
ValidToken(t, buf, p, maxLength, maxDistance) ==
    IF t.isReference
    THEN /\ MinMatch <= t.length /\ t.length <= maxLength
         /\ 1 <= t.distance /\ t.distance <= Min(p, maxDistance)
         /\ p + t.length <= Len(buf)
         /\ \A k \in 0..(t.length - 1) : buf[p + k + 1] = buf[p + k - t.distance + 1]
    ELSE p < Len(buf) /\ t.symbol = buf[p + 1]

\* the symbols of reference t are leaves of the two trees
CodedBy(t, sym, dst) ==
    t.isReference =>
        /\ \E i \in 1..Len(Leaves(sym)) : Leaves(sym)[i] = t.length - MinMatch + LenSymBase
        /\ \E i \in 1..Len(Leaves(dst)) : Leaves(dst)[i] = t.distance - 1

\* C18: the tokens returned by CxiAshTokenize and by every CxiAshRetokenize
\* pass partition the input (their lengths, 1 for a literal, sum to n); a
\* literal at p carries buffer[p]; a reference at p has 3 <= length <= L_max,
\* 1 <= distance <= min(p, 2^dist_bits), p + length <= n and copies equal
\* bytes; after a retokenize pass its length and distance symbols are leaves
\* of the trees the pass was given.
C18_ValidTokens ==
    pc = "genhuffman" =>
        /\ TokenPos(tokens, Len(tokens) + 1) = Len(buffer)
        /\ \A i \in 1..Len(tokens) :
               /\ ValidToken(tokens[i], buffer, TokenPos(tokens, i),
                             Pow2(nSymBits) - 1 - LenSymBase + MinMatch, Pow2(nDstBits))
               /\ pass > 0 => CodedBy(tokens[i], symNodes, dstNodes)

\* the second pass over "abababaaaabbbab" has returned seven tokens, among
\* them references of two lengths and an overlapping one
C18_Witness ==
    /\ Retokenized /\ pass = 2
    /\ buffer = MixInput
    /\ Len(tokens) = 7
    /\ tokens[3] = Reference(5, 2)
    /\ tokens[4].isReference /\ tokens[4].length > tokens[4].distance
    /\ tokens[7] = Reference(3, 9)

\* sym is the symbol of a leaf of tree t
IsLeafOf(sym, t) == \E i \in 1..Len(Leaves(t)) : Leaves(t)[i] = sym

RECURSIVE DepthNotFound(_, _)
\* CxiHuffmanGetNodeDepth(t, sym) reaches its last return: neither child of
\* some node on the way holds sym
DepthNotFound(t, sym) ==
    IF ISLEAF(t) THEN FALSE
    ELSE IF CxiHuffmanHasSymbol(t.left, sym) THEN DepthNotFound(t.left, sym)
    ELSE IF CxiHuffmanHasSymbol(t.right, sym) THEN DepthNotFound(t.right, sym)
    ELSE TRUE

\* the symbols CxCompressAsh passes to CxiHuffmanWriteSymbol for token t
EmittedLeaves(t, sym, dst) ==
    IF t.isReference
    THEN /\ IsLeafOf(t.length - MinMatch + LenSymBase, sym)
         /\ IsLeafOf(t.distance - 1, dst)
    ELSE IsLeafOf(t.symbol, sym)

\* C19: every symbol the encoder looks up in a tree is a leaf of it. With the
\* trees of any pass, every byte value of the input is a leaf of the sym tree
\* and CxiHuffmanGetNodeDepth finds it; the literal, length and distance
\* symbols of the tokens the trees were built from, which are the tokens
\* emitted after the last pass, are leaves of the tree they are coded with.
C19_Leaves ==
    pc = "passloop" =>
        /\ \A p \in 1..Len(buffer) :
               /\ IsLeafOf(buffer[p], symNodes)
               /\ ~DepthNotFound(symNodes, buffer[p])
        /\ \A i \in 1..Len(tokens) : EmittedLeaves(tokens[i], symNodes, dstNodes)

\* before emission, after a retokenize pass: "abababaaaabbbab" has its two
\* byte values and two length symbols in the sym tree, three distances in
\* the dist tree
C19_Witness ==
    /\ pc = "passloop" /\ pass = nPasses /\ pass > 0
    /\ buffer = MixInput
    /\ IsLeafOf(97, symNodes) /\ IsLeafOf(98, symNodes)
    /\ IsLeafOf(LenSymBase, symNodes) /\ IsLeafOf(LenSymBase + 2, symNodes)
    /\ Len(Leaves(dstNodes)) = 3
    /\ \E i \in 1..Len(tokens) : tokens[i].isReference /\ tokens[i].distance = 9

\* the fields of internal node n are those its two children give
NodeSums(n) ==
    /\ n.freq = n.left.freq + n.right.freq
    /\ n.symMin = Min(n.left.symMin, n.right.symMin)
    /\ n.symMax = Max(n.left.symMax, n.right.symMax)
    /\ n.nRepresent = n.left.nRepresent + n.right.nRepresent

RECURSIVE TreeSums(_)
\* NodeSums at every internal node of t
TreeSums(t) == ISLEAF(t) \/ (NodeSums(t) /\ TreeSums(t.left) /\ TreeSums(t.right))

\* new[k] is the merge of old[i] and old[j], two roots of least frequency,
\* and the other roots are kept
MergedAt(old, new, k, i, j) ==
    /\ ~ISLEAF(new[k])
    /\ new[k].left = old[i] /\ new[k].right = old[j]
    /\ NodeSums(new[k])
    /\ \A m \in (1..Len(old)) \ {i, j} :
           old[i].freq <= old[m].freq /\ old[j].freq <= old[m].freq
    /\ {new[x] : x \in (1..Len(new)) \ {k}} = {old[m] : m \in (1..Len(old)) \ {i, j}}

\* an iteration of the merge loop
MergeIteration ==
    (pc = "merge" /\ pc' = "merge" /\ roots' # roots) =>
        /\ Len(roots') = Len(roots) - 1
        /\ \E k \in 1..Len(roots') : \E i, j \in 1..Len(roots) :
               i # j /\ MergedAt(roots, roots', k, i, j)

\* the tree built from a histogram with a symbol of nonzero frequency (with
\* none, which CxiAshGenHuffman never passes, no merge happens and nodes[0]
\* is a leaf of frequency 0)
FinishedTree ==
    (pc = "built" /\ Present(hist) # {}) =>
        /\ TreeSums(tree)
        /\ {Leaves(tree)[i] : i \in 1..Len(Leaves(tree))} = Present(hist)
        /\ Len(Leaves(tree)) = Cardinality(Present(hist))

\* C20: every iteration of the merge loop of CxiHuffmanConstructTree merges
\* two roots whose frequencies are <= that of every other remaining root,
\* into a node with freq = left.freq + right.freq, symMin = the smaller
\* symMin, symMax = the larger symMax, nRepresent = left.nRepresent +
\* right.nRepresent; in the finished tree these equalities hold at every
\* internal node and the leaves are exactly the symbols of nonzero frequency.
C20_Merge == [][MergeIteration]_vars /\ []FinishedTree

\* a tree of five leaves built from frequencies 1 and 2 by four merges
C20_Witness ==
    /\ pc = "built"
    /\ Cardinality(Present(hist)) = 5
    /\ \E a, b \in Present(hist) : hist[a] = 1 /\ hist[b] = 2
    /\ tree.freq = 8 /\ tree.nRepresent = 5
    /\ tree.symMin = 0 /\ tree.symMax = 300
    /\ ~ISLEAF(tree.left) /\ ~ISLEAF(tree.right)

\* the locals of CxAshReadTree stay inside their allocations: no pop of the
\* empty scratch stack, nNodes the number of pending entries and never
\* below 0, at most 2 * 2^w of them, every index assigned or written in
\* 2^w .. 2 * 2^w - 2
ReadTreeBounds(rt, w) ==
    /\ ~rt.undefined
    /\ rt.nNodes >= 0 /\ rt.nNodes = Len(rt.work)
    /\ Len(rt.work) <= 2 * Pow2(w)
    /\ Pow2(w) <= rt.r23 /\ rt.r23 - 1 <= 2 * Pow2(w) - 2
    /\ \A i \in 1..Len(rt.work) :
           Pow2(w) <= rt.work[i].idx /\ rt.work[i].idx <= 2 * Pow2(w) - 2
    /\ \A i \in (DOMAIN rt.leftTree) \cup (DOMAIN rt.rightTree) :
           Pow2(w) <= i /\ i <= 2 * Pow2(w) - 2

RECURSIVE NodeCount(_)
\* the nodes of the tree rooted at n
NodeCount(n) == IF ISLEAF(n) THEN 1 ELSE 1 + NodeCount(n.left) + NodeCount(n.right)

\* nTotalNodes: the nodes of the array in use, those of the trees of all roots
TotalNodes(rs) == ForLoop(LAMBDA i, c : c + NodeCount(rs[i]), 1, Len(rs), 0)

\* C21: reading a tree the encoder serialized over an alphabet of 2^w
\* symbols, CxAshReadTree never pops its empty scratch stack, never holds
\* more than 2 * 2^w pending entries and assigns internal indices only in
\* 2^w .. 2 * 2^w - 2, so every write to leftTree and rightTree is inside
\* the arrays of 2 * 2^w - 1 entries; CxiHuffmanConstructTree never has
\* more than 2 * 2^w - 1 nodes in its array of 2 * 2^w nodes.
C21_TreeBounds ==
    /\ pc \in {"readtree", "treeread", "aborted", "undefined"} =>
           ReadTreeBounds(symTree, nSymBits)
    /\ pc \in {"merge", "built", "readtree", "treeread", "aborted", "undefined"} =>
           TotalNodes(roots) <= 2 * Pow2(nSymBits) - 1

\* a tree over all four symbols of the 2-bit alphabet was read: seven nodes
\* were built, the last internal index 6 was written in both arrays
C21_Witness ==
    /\ pc = "treeread"
    /\ nSymBits = 2
    /\ TotalNodes(roots) = 7
    /\ symTree.r23 = 7 /\ symTree.work = << >>
    /\ 6 \in DOMAIN symTree.leftTree /\ 6 \in DOMAIN symTree.rightTree
    /\ symTree.symRoot = 4
====
